---- MODULE Spec2Model ----
(***************************************************************************)
(* Model of the FinReason financial analytics engine                       *)
(* (src/ai-agent/financial_analyzer.py, src/ml_models/predictor.py).       *)
(*                                                                         *)
(* The engine is a set of evaluators a caller invokes on a transaction     *)
(* collection it has assembled.  The state of the model is the caller's    *)
(* collection, the wall clock the evaluators read through datetime.now(),  *)
(* the analyzer's one field (anomaly_threshold) and the record of the last *)
(* call of each evaluator: its arguments and what it returned or raised.   *)
(*                                                                         *)
(* Numbers.  Python computes in binary floating point; the model computes  *)
(* in exact rationals <<numerator, denominator>> (denominator > 0, lowest  *)
(* terms), so a statement checked here is about the arithmetic the code    *)
(* writes down, not about rounding in the last bit.  The exception is the  *)
(* z-score of _detect_anomalies: exact arithmetic puts it exactly on the   *)
(* threshold for some amounts, so it is computed as the code computes it,  *)
(* in binary64.                                                            *)
(*                                                                         *)
(* Time.  A date is a day number: day 1 is January 1st of year 0 and every *)
(* year has 365 days (no leap years).  datetime.now() is read once per     *)
(* call, at day resolution.                                                *)
(***************************************************************************)
EXTENDS Integers, Sequences, FiniteSets, TLC

VARIABLES
    now,                \* datetime.now() (financial_analyzer.py:38, 145, 171)
    anomaly_threshold,  \* FinancialAnalyzer.anomaly_threshold (line 15)
    transactions,       \* the collection the caller has assembled so far
    healthOut,          \* last get_financial_health_score call: {} or {call}
    ratingOut,          \* last _get_health_rating call: {} or {call}
    budgetOut,          \* last analyze_budget_performance call: {} or {call}
    patternsOut,        \* last analyze_spending_patterns call: {} or {call}
    earlier,            \* an earlier call the caller kept: <<patterns, budget>>
    seriesOut,          \* last _calculate_trend / _detect_anomalies call on a series
    predictOut,         \* last SpendingPredictor.predict_spending call
    anomalyOut,         \* last AnomalyDetector.detect_anomalies call
    savingsOut,         \* last SavingsOptimizer.optimize_savings call
    rebalanceOut,       \* last get_portfolio_rebalancing request (main.py:235)
    cache,              \* MarketDataFetcher.cache (market_data.py:13)
    cache_expiry,       \* MarketDataFetcher.cache_expiry (market_data.py:14)
    clock,              \* datetime.now() in seconds (market_data.py:56, 242)
    marketOut           \* last MarketDataFetcher getter call: {} or {call}

\* What the calls of financial_analyzer.py's evaluators leave alone: the
\* caller's notes and the last calls of the other components.
otherVars == <<earlier, seriesOut, predictOut, anomalyOut, savingsOut>>

\* The state of the service layer: the last request of the rebalancing
\* endpoint and the market data fetcher's cache.
serviceVars == <<rebalanceOut, cache, cache_expiry, clock, marketOut>>

vars == <<now, anomaly_threshold, transactions, healthOut, ratingOut,
          budgetOut, patternsOut, otherVars, serviceVars>>

---------------------------------------------------------------------------
(* Exact rational arithmetic.                                              *)

Abs(n) == IF n < 0 THEN -n ELSE n

RECURSIVE GCD(_, _)
GCD(a, b) == IF b = 0 THEN a ELSE GCD(b, a % b)

\* n/d in lowest terms with a positive denominator (d # 0).
Rat(n, d) ==
    LET g == GCD(Abs(n), Abs(d))
        s == IF d < 0 THEN -1 ELSE 1
    IN  <<(s * n) \div g, (s * d) \div g>>

RatInt(n) == <<n, 1>>
Zero == RatInt(0)

RatAdd(p, q) == Rat(p[1] * q[2] + q[1] * p[2], p[2] * q[2])
RatSub(p, q) == Rat(p[1] * q[2] - q[1] * p[2], p[2] * q[2])
RatMul(p, q) == Rat(p[1] * q[1], p[2] * q[2])
\* q # 0
RatDiv(p, q) == Rat(p[1] * q[2], p[2] * q[1])
RatLT(p, q) == p[1] * q[2] < q[1] * p[2]
RatLE(p, q) == p[1] * q[2] <= q[1] * p[2]
RatGT(p, q) == RatLT(q, p)
RatGE(p, q) == RatLE(q, p)
\* Python's min(a, b) and max(a, b): the first argument wins a tie.
RatMin(p, q) == IF RatLT(q, p) THEN q ELSE p
RatMax(p, q) == IF RatGT(q, p) THEN q ELSE p

---------------------------------------------------------------------------
(* Binary floating point (IEEE 754 binary64, round to nearest, ties to     *)
(* even), for the one computation whose outcome turns on the last bit: the *)
(* z-score of _detect_anomalies, which exact arithmetic puts exactly on    *)
(* the threshold for some inputs.                                          *)
(*                                                                         *)
(* A natural number of any size is the sequence of its digits in base      *)
(* 2^15, lowest first, without leading zero digits; 0 is <<>>.  A float is *)
(* [sgn, man, exp] with value sgn * man * 2^exp, sgn in {-1, 0, 1} and man *)
(* a natural of exactly 53 bits (<<>> for zero).  Infinities, NaN and      *)
(* subnormal numbers are out of reach of the amounts of the model.         *)

LimbBits == 15
LimbBase == 32768
MantissaBits == 53

RECURSIVE Pow2(_)
Pow2(k) == IF k = 0 THEN 1 ELSE 2 * Pow2(k - 1)

RECURSIVE IntBitLength(_)
IntBitLength(n) == IF n = 0 THEN 0 ELSE 1 + IntBitLength(n \div 2)

Limb(a, i) == IF i >= 1 /\ i <= Len(a) THEN a[i] ELSE 0

\* In(value): a value that is used in several places is handed over as
\* an argument and computed once.
With(value, In(_)) == In(value)

RECURSIVE BigTrim(_, _)
BigTrim(a, n) == IF n = 0 \/ a[n] # 0 THEN SubSeq(a, 1, n) ELSE BigTrim(a, n - 1)

\* The digits of a without leading zero digits.
BigNorm(a) == BigTrim(a, Len(a))

RECURSIVE BigFromInt(_)
BigFromInt(n) ==
    IF n = 0 THEN <<>> ELSE <<n % LimbBase>> \o BigFromInt(n \div LimbBase)

RECURSIVE BigToInt(_)
BigToInt(a) ==
    IF a = <<>> THEN 0 ELSE a[1] + LimbBase * BigToInt(Tail(a))

RECURSIVE BigCompareAt(_, _, _)
BigCompareAt(a, b, i) ==
    IF i = 0 THEN 0
    ELSE IF a[i] > b[i] THEN 1
    ELSE IF a[i] < b[i] THEN -1
    ELSE BigCompareAt(a, b, i - 1)

\* -1, 0 or 1 as a < b, a = b or a > b.
BigCompare(a, b) ==
    IF Len(a) > Len(b) THEN 1
    ELSE IF Len(a) < Len(b) THEN -1
    ELSE BigCompareAt(a, b, Len(a))

RECURSIVE BigAddFrom(_, _, _, _)
BigAddFrom(a, b, i, carry) ==
    IF i > Len(a) /\ i > Len(b)
    THEN (IF carry = 0 THEN <<>> ELSE <<carry>>)
    ELSE LET t == Limb(a, i) + Limb(b, i) + carry
         IN  <<t % LimbBase>> \o BigAddFrom(a, b, i + 1, t \div LimbBase)

BigAdd(a, b) == BigAddFrom(a, b, 1, 0)

RECURSIVE BigSubFrom(_, _, _, _)
BigSubFrom(a, b, i, borrow) ==
    IF i > Len(a) THEN <<>>
    ELSE LET t == Limb(a, i) - Limb(b, i) - borrow
         IN  <<t % LimbBase>> \o BigSubFrom(a, b, i + 1, IF t < 0 THEN 1 ELSE 0)

\* a - b for a >= b.
BigSub(a, b) == BigNorm(BigSubFrom(a, b, 1, 0))

RECURSIVE BigMulLimbFrom(_, _, _, _)
BigMulLimbFrom(a, d, i, carry) ==
    IF i > Len(a) THEN (IF carry = 0 THEN <<>> ELSE <<carry>>)
    ELSE LET t == a[i] * d + carry
         IN  <<t % LimbBase>> \o BigMulLimbFrom(a, d, i + 1, t \div LimbBase)

\* a * d for one digit d.
BigMulLimb(a, d) == IF d = 0 THEN <<>> ELSE BigMulLimbFrom(a, d, 1, 0)

RECURSIVE BigMul(_, _)
BigMul(a, b) ==
    IF b = <<>> \/ a = <<>> THEN <<>>
    ELSE BigAdd(BigMulLimb(a, b[1]), BigNorm(<<0>> \o BigMul(a, Tail(b))))

\* a * 2^k.
BigShiftLeft(a, k) ==
    LET q == k \div LimbBits
        r == k % LimbBits
    IN  IF a = <<>> THEN a
        ELSE [i \in 1..q |-> 0] \o BigMulLimb(a, Pow2(r))

\* floor(a / 2^k).
BigShiftRight(a, k) ==
    LET q == k \div LimbBits
        r == k % LimbBits
        n == Len(a) - q
    IN  IF n <= 0 THEN <<>>
        ELSE BigNorm([i \in 1..n |->
                         (Limb(a, i + q) \div Pow2(r))
                         + (Limb(a, i + q + 1) % Pow2(r)) * Pow2(LimbBits - r)])

BigBitLength(a) ==
    IF a = <<>> THEN 0 ELSE LimbBits * (Len(a) - 1) + IntBitLength(a[Len(a)])

\* Bit i of a, bit 0 the lowest.
BigBit(a, i) == (Limb(a, (i \div LimbBits) + 1) \div Pow2(i % LimbBits)) % 2

BigIsOdd(a) == a # <<>> /\ a[1] % 2 = 1

\* a / 2^k rounded to the nearest natural, a tie to the even one.  sticky
\* says that the exact value lies strictly above a.
BigRoundShift(a, k, sticky) ==
    IF k <= 0 THEN BigShiftLeft(a, -k)
    ELSE LET half == BigBit(a, k - 1) = 1
             rest == sticky \/ BigShiftLeft(BigShiftRight(a, k - 1), k - 1) # a
         IN  With(BigShiftRight(a, k), LAMBDA q :
                 IF half /\ (rest \/ BigIsOdd(q)) THEN BigAdd(q, <<1>>) ELSE q)

\* One digit of a long division by d, whose top digit is at least
\* LimbBase / 2: r < d * LimbBase is the remainder so far with the next
\* digit brought down.  The quotient of its two top digits by the top digit
\* of d is the digit sought or exceeds it by at most 2.
BigDivDigit(r, d) ==
    LET n == Len(d)
        est == (Limb(r, n + 1) * LimbBase + Limb(r, n)) \div d[n]
    IN  With(IF est > LimbBase - 1 THEN LimbBase - 1 ELSE est, LAMBDA top :
            IF BigCompare(BigMulLimb(d, top), r) <= 0 THEN top
            ELSE IF BigCompare(BigMulLimb(d, top - 1), r) <= 0 THEN top - 1
            ELSE top - 2)

\* Long division by d, a digit of n at a time: qr holds the quotient and
\* the remainder of the digits of n above digit j, and digit j is brought
\* down.
RECURSIVE BigDivModFrom(_, _, _, _)
BigDivModFrom(n, d, j, qr) ==
    IF j < 1 THEN qr
    ELSE With(BigNorm(<<Limb(n, j)>> \o qr[2]), LAMBDA r :
             IF BigCompare(r, d) < 0
             THEN BigDivModFrom(n, d, j - 1, <<BigNorm(<<0>> \o qr[1]), r>>)
             ELSE With(BigDivDigit(r, d), LAMBDA digit :
                      BigDivModFrom(n, d, j - 1,
                                    <<BigNorm(<<digit>> \o qr[1]),
                                      BigSub(r, BigMulLimb(d, digit))>>)))

\* <<floor(n / d), n mod d>> for d > 0: both are scaled by a power of 2
\* that brings the top digit of d to LimbBase / 2 or above.
BigDivMod(n, d) ==
    LET k == LimbBits - IntBitLength(d[Len(d)])
    IN  With(BigDivModFrom(BigShiftLeft(n, k), BigShiftLeft(d, k), Len(n) + 1,
                           <<<<>>, <<>>>>),
             LAMBDA qr : <<qr[1], BigShiftRight(qr[2], k)>>)

\* Newton's iteration for the square root of an int v < 2^30 from a start
\* s >= sqrt(v): it descends to floor(sqrt(v)) and stops there.
RECURSIVE IntSqrtFrom(_, _)
IntSqrtFrom(v, s) ==
    LET t == (s + v \div s) \div 2
    IN  IF t < s THEN IntSqrtFrom(v, t) ELSE s

\* The same for a natural of any size.
RECURSIVE BigSqrtFrom(_, _)
BigSqrtFrom(n, s) ==
    With(BigShiftRight(BigAdd(s, BigDivMod(n, s)[1]), 1), LAMBDA t :
        IF BigCompare(t, s) < 0 THEN BigSqrtFrom(n, t) ELSE s)

\* floor(sqrt(n)).  The iteration starts from the root of the top 30 bits
\* of n, rounded up and scaled back.
BigSqrt(n) ==
    LET len == BigBitLength(n)
        k == IF len <= 30 THEN 0 ELSE (len - 29) \div 2
        v == BigToInt(BigShiftRight(n, 2 * k))
    IN  IF n = <<>> THEN n
        ELSE BigSqrtFrom(n, BigShiftLeft(BigFromInt(IntSqrtFrom(v, LimbBase) + 1), k))

FloatZero == [sgn |-> 0, man |-> <<>>, exp |-> 0]

\* The float nearest to sgn * (man + a fraction if sticky) * 2^exp.
FloatRound(sgn, man, exp, sticky) ==
    IF man = <<>> \/ sgn = 0 THEN FloatZero
    ELSE LET k == BigBitLength(man) - MantissaBits
         IN  With(BigRoundShift(man, k, sticky), LAMBDA m :
                 IF BigBitLength(m) > MantissaBits
                 THEN [sgn |-> sgn, man |-> BigShiftRight(m, 1), exp |-> exp + k + 1]
                 ELSE [sgn |-> sgn, man |-> m, exp |-> exp + k])

\* float(n) of an int.
FloatFromInt(n) ==
    FloatRound(IF n < 0 THEN -1 ELSE IF n > 0 THEN 1 ELSE 0,
               BigFromInt(IF n < 0 THEN -n ELSE n), 0, FALSE)

FloatNeg(x) == [x EXCEPT !.sgn = -x.sgn]

FloatAbs(x) == [x EXCEPT !.sgn = IF x.sgn = 0 THEN 0 ELSE 1]

\* x + y.
FloatAdd(x, y) ==
    IF x.sgn = 0 THEN y
    ELSE IF y.sgn = 0 THEN x
    ELSE LET e == IF x.exp < y.exp THEN x.exp ELSE y.exp
         IN  With(BigShiftLeft(x.man, x.exp - e), LAMBDA a :
             With(BigShiftLeft(y.man, y.exp - e), LAMBDA b :
             With(BigCompare(a, b), LAMBDA c :
                 FloatRound(IF x.sgn = y.sgn \/ c > 0 THEN x.sgn
                            ELSE IF c = 0 THEN 0 ELSE y.sgn,
                            IF x.sgn = y.sgn THEN BigAdd(a, b)
                            ELSE IF c = 0 THEN <<>>
                            ELSE IF c > 0 THEN BigSub(a, b) ELSE BigSub(b, a),
                            e, FALSE))))

FloatSub(x, y) == FloatAdd(x, FloatNeg(y))

FloatMul(x, y) ==
    FloatRound(x.sgn * y.sgn, BigMul(x.man, y.man), x.exp + y.exp, FALSE)

\* x / y for y # 0: 56 more bits of the quotient than the two mantissas
\* give, and whether anything is left below them.
FloatDiv(x, y) ==
    IF x.sgn = 0 THEN FloatZero
    ELSE With(BigDivMod(BigShiftLeft(x.man, 56), y.man), LAMBDA qr :
             FloatRound(x.sgn * y.sgn, qr[1], x.exp - y.exp - 56, qr[2] # <<>>))

\* sqrt(x) for x >= 0.
FloatSqrt(x) ==
    IF x.sgn = 0 THEN FloatZero
    ELSE LET odd == x.exp % 2 = 1
             e == (IF odd THEN x.exp - 1 ELSE x.exp) - 56
         IN  With(BigShiftLeft(x.man, IF odd THEN 57 ELSE 56), LAMBDA n :
             With(BigSqrt(n), LAMBDA s :
                 FloatRound(1, s, e \div 2, BigMul(s, s) # n)))

\* x > y.
FloatGT(x, y) ==
    IF x.sgn # y.sgn THEN x.sgn > y.sgn
    ELSE IF x.sgn = 0 THEN FALSE
    ELSE LET c == IF x.exp # y.exp
                  THEN (IF x.exp > y.exp THEN 1 ELSE -1)
                  ELSE BigCompare(x.man, y.man)
         IN  IF x.sgn = 1 THEN c > 0 ELSE c < 0

\* float of the rational r: the literal or quotient nearest to it.
FloatFromRat(r) == FloatDiv(FloatFromInt(r[1]), FloatFromInt(r[2]))

\* np.sum of fewer than 8 floats: added one after the other from 0.0.
RECURSIVE FloatSumFrom(_, _, _)
FloatSumFrom(xs, i, acc) ==
    IF i > Len(xs) THEN acc ELSE FloatSumFrom(xs, i + 1, FloatAdd(acc, xs[i]))

FloatSum(xs) == FloatSumFrom(xs, 1, FloatZero)

\* f"{x:.1f}" for a float x >= 0, as the number of tenths: 10 * x rounded
\* to the nearest natural, a tie to the even one.
FloatTenths(x) ==
    IF x.sgn = 0 THEN 0
    ELSE BigToInt(BigRoundShift(BigMulLimb(x.man, 10), -x.exp, FALSE))

---------------------------------------------------------------------------
(* Financial Health Scorer: FinancialAnalyzer.get_financial_health_score.  *)

\* scores['income_stability'] = 15
IncomeStabilityBase == 15

\* The callers' arguments.  Negative net worth, negative and zero expenses,
\* zero income and debt ratios below 0 and above 1 are all there.
NetWorths == {-6000, 0, 7500, 50000}
MonthlyIncomes == {0, 5000}
MonthlyExpenses == {-30000, 0, 2500, 4000, 4800, 6000}
DebtRatios ==
    {Rat(-1, 2), Zero, Rat(15, 100), Rat(3, 5), Rat(7, 10), RatInt(1), Rat(3, 2)}

\* savings_rate = (income - expenses) / income if income > 0 else 0
SavingsRate(monthly_income, monthly_expenses) ==
    IF monthly_income > 0
    THEN Rat(monthly_income - monthly_expenses, monthly_income)
    ELSE Zero

\* The sub-score had the rate been scaled so that a rate of 25% earns the
\* full 25 points.
SavingsRateScorePercent(monthly_income, monthly_expenses) ==
    RatMin(RatInt(25),
           RatMax(Zero,
                  RatMul(SavingsRate(monthly_income, monthly_expenses),
                         RatInt(100))))

\* scores['savings_rate'] = min(25, max(0, savings_rate * 100 / 20))
SavingsRateScore(monthly_income, monthly_expenses) ==
    RatMin(RatInt(25),
           RatMax(Zero,
                  RatDiv(RatMul(SavingsRate(monthly_income, monthly_expenses),
                                RatInt(100)),
                         RatInt(20))))

\* debt_score = max(0, 25 * (1 - min(1, debt_ratio)))
DebtScore(debt_ratio) ==
    RatMax(Zero,
           RatMul(RatInt(25), RatSub(RatInt(1), RatMin(RatInt(1), debt_ratio))))

\* months_of_expenses = net_worth / monthly_expenses if monthly_expenses > 0
\* else 0; capped at 12; scores['emergency_fund'] = min(25, months * 25 / 6)
EmergencyFundScore(net_worth, monthly_expenses) ==
    LET months == IF monthly_expenses > 0
                  THEN Rat(net_worth, monthly_expenses)
                  ELSE Zero
        capped == RatMin(months, RatInt(12))
    IN  RatMin(RatInt(25), RatDiv(RatMul(capped, RatInt(25)), RatInt(6)))

\* The scores dict, in the order the code fills it.
Scores(net_worth, monthly_income, monthly_expenses, debt_ratio) ==
    [savings_rate     |-> SavingsRateScore(monthly_income, monthly_expenses),
     debt_ratio       |-> DebtScore(debt_ratio),
     emergency_fund   |-> EmergencyFundScore(net_worth, monthly_expenses),
     income_stability |-> RatInt(IncomeStabilityBase)]

\* A slip that leaves the placeholder term out of the total.
TotalScoreWithoutStability(scores) ==
    RatAdd(RatAdd(scores.savings_rate, scores.debt_ratio), scores.emergency_fund)

\* total_score = sum(scores.values())
TotalScore(scores) ==
    RatAdd(RatAdd(RatAdd(scores.savings_rate, scores.debt_ratio),
                  scores.emergency_fund),
           scores.income_stability)

\* A slip that makes the lower edge of every band exclusive.
StrictHealthRating(score) ==
    IF RatGT(score, RatInt(80)) THEN "EXCELLENT"
    ELSE IF RatGT(score, RatInt(60)) THEN "GOOD"
    ELSE IF RatGT(score, RatInt(40)) THEN "FAIR"
    ELSE "POOR"

\* FinancialAnalyzer._get_health_rating
GetHealthRating(score) ==
    IF RatGE(score, RatInt(80)) THEN "EXCELLENT"
    ELSE IF RatGE(score, RatInt(60)) THEN "GOOD"
    ELSE IF RatGE(score, RatInt(40)) THEN "FAIR"
    ELSE "POOR"

\* A slip that also advises on a sub-score of exactly 10.
GetHealthRecommendationsInclusive(scores) ==
    (IF RatLE(scores.savings_rate, RatInt(10))
     THEN <<"Increase saving rate by reducing expenses">> ELSE <<>>)
    \o (IF RatLE(scores.debt_ratio, RatInt(10))
        THEN <<"Focus on paying down debt">> ELSE <<>>)
    \o (IF RatLE(scores.emergency_fund, RatInt(10))
        THEN <<"Build emergency fund with 3-6 months of expenses">> ELSE <<>>)

\* FinancialAnalyzer._get_health_recommendations
GetHealthRecommendations(scores) ==
    (IF RatLT(scores.savings_rate, RatInt(10))
     THEN <<"Increase saving rate by reducing expenses">> ELSE <<>>)
    \o (IF RatLT(scores.debt_ratio, RatInt(10))
        THEN <<"Focus on paying down debt">> ELSE <<>>)
    \o (IF RatLT(scores.emergency_fund, RatInt(10))
        THEN <<"Build emergency fund with 3-6 months of expenses">> ELSE <<>>)

\* What get_financial_health_score returns.
HealthScore(net_worth, monthly_income, monthly_expenses, debt_ratio) ==
    LET scores == Scores(net_worth, monthly_income, monthly_expenses, debt_ratio)
        total_score == TotalScore(scores)
    IN  [overall_score   |-> total_score,
         breakdown       |-> scores,
         rating          |-> GetHealthRating(total_score),
         recommendations |-> GetHealthRecommendations(scores)]

\* The scores _get_health_rating is called with on its own: every quarter
\* point from -10 to 110, so each band edge and both sides of it are there.
RatingScores == {Rat(k, 4) : k \in -40..440}

---------------------------------------------------------------------------
(* The state after construction.                                           *)

\* FinancialAnalyzer(anomaly_threshold=2.0) by default; 1.0 is a caller's.
AnomalyThresholds == {RatInt(1), RatInt(2)}

\* The day the model's clock starts at: day 485 is April 30th of year 1.
StartDay == 485
\* How many days the clock may advance.
MaxTicks == 1

Init ==
    /\ now = StartDay
    /\ anomaly_threshold \in AnomalyThresholds
    /\ transactions = <<>>
    /\ healthOut = {}
    /\ ratingOut = {}
    /\ budgetOut = {}
    /\ patternsOut = {}
    /\ earlier = <<{}, {}>>
    /\ seriesOut = {}
    /\ predictOut = {}
    /\ anomalyOut = {}
    /\ savingsOut = {}
    /\ rebalanceOut = {}
    /\ cache = <<>>
    /\ cache_expiry = <<>>
    /\ clock = 0
    /\ marketOut = {}

---------------------------------------------------------------------------
(* The health scorer's calls.                                              *)

GetFinancialHealthScore ==
    \E net_worth \in NetWorths, monthly_income \in MonthlyIncomes,
       monthly_expenses \in MonthlyExpenses, debt_ratio \in DebtRatios :
        /\ healthOut' =
              {[net_worth        |-> net_worth,
                monthly_income   |-> monthly_income,
                monthly_expenses |-> monthly_expenses,
                debt_ratio       |-> debt_ratio,
                result |-> HealthScore(net_worth, monthly_income,
                                       monthly_expenses, debt_ratio)]}
        /\ ratingOut' = {}
        /\ UNCHANGED <<serviceVars, now, anomaly_threshold, transactions, budgetOut, patternsOut,
                     otherVars>>

CallGetHealthRating ==
    \E score \in RatingScores :
        /\ ratingOut' = {[score |-> score, rating |-> GetHealthRating(score)]}
        /\ healthOut' = {}
        /\ UNCHANGED <<serviceVars, now, anomaly_threshold, transactions, budgetOut, patternsOut,
                     otherVars>>

NextHealth == GetFinancialHealthScore \/ CallGetHealthRating

SpecHealth == Init /\ [][NextHealth]_vars

---------------------------------------------------------------------------
(* Properties of the health scorer, checked under SpecHealth.              *)

SubScoreNames == {"savings_rate", "debt_ratio", "emergency_fund", "income_stability"}

RECURSIVE SumValues(_, _)
SumValues(f, keys) ==
    IF keys = {} THEN Zero
    ELSE LET k == CHOOSE x \in keys : TRUE
         IN  RatAdd(f[k], SumValues(f, keys \ {k}))

\* C1: for every input of get_financial_health_score, each of the four
\* sub-scores of the breakdown lies within [0, 25].
SubScoresWithinBand ==
    \A h \in healthOut :
        \A k \in DOMAIN h.result.breakdown :
            /\ RatLE(Zero, h.result.breakdown[k])
            /\ RatLE(h.result.breakdown[k], RatInt(25))

\* C2: the demo call (net worth 50000, income 5000, expenses 2500, debt
\* ratio 0.15) scores savings_rate 25, debt_ratio 21.25, emergency_fund 25,
\* income_stability 15, overall 86.25, and is rated EXCELLENT.
DemoHealthExample ==
    \A h \in healthOut :
        (/\ h.net_worth = 50000
         /\ h.monthly_income = 5000
         /\ h.monthly_expenses = 2500
         /\ h.debt_ratio = Rat(15, 100))
        => /\ h.result.breakdown.savings_rate = RatInt(25)
           /\ h.result.breakdown.debt_ratio = Rat(2125, 100)
           /\ h.result.breakdown.emergency_fund = RatInt(25)
           /\ h.result.breakdown.income_stability = RatInt(15)
           /\ h.result.overall_score = Rat(8625, 100)
           /\ h.result.rating = "EXCELLENT"

\* C3: with income > 0, a savings rate of at least 20% scores the ceiling 25
\* and a rate between 0 and 20% scores linearly, 25 * rate / 20%.
SavingsCeilingAtTwentyPercent ==
    \A h \in healthOut :
        LET rate == SavingsRate(h.monthly_income, h.monthly_expenses)
        IN  h.monthly_income > 0
            => /\ RatGE(rate, Rat(20, 100))
                  => h.result.breakdown.savings_rate = RatInt(25)
               /\ (RatGE(rate, Zero) /\ RatLT(rate, Rat(20, 100)))
                  => h.result.breakdown.savings_rate =
                        RatDiv(RatMul(RatInt(25), rate), Rat(20, 100))

\* C4: for every input, overall_score is the sum of the values of the
\* breakdown, the breakdown has exactly the four keys savings_rate,
\* debt_ratio, emergency_fund and income_stability, and income_stability
\* is 15.
OverallIsSumOfBreakdown ==
    \A h \in healthOut :
        /\ DOMAIN h.result.breakdown = SubScoreNames
        /\ h.result.overall_score = SumValues(h.result.breakdown, SubScoreNames)
        /\ h.result.breakdown.income_stability = RatInt(15)

\* A call with negative net worth and zero income has returned.
OverallIsSumWitness ==
    \E h \in healthOut :
        /\ h.net_worth < 0
        /\ h.monthly_income = 0
        /\ h.result.overall_score # RatInt(15)

RatingMatchesBands(score, rating) ==
    /\ rating \in {"EXCELLENT", "GOOD", "FAIR", "POOR"}
    /\ rating = "EXCELLENT" <=> RatGE(score, RatInt(80))
    /\ rating = "GOOD" <=> (RatGE(score, RatInt(60)) /\ RatLT(score, RatInt(80)))
    /\ rating = "FAIR" <=> (RatGE(score, RatInt(40)) /\ RatLT(score, RatInt(60)))
    /\ rating = "POOR" <=> RatLT(score, RatInt(40))

\* C5: the rating returned with a score s is EXCELLENT iff s >= 80, GOOD iff
\* 60 <= s < 80, FAIR iff 40 <= s < 60 and POOR iff s < 40, for a score
\* rated on its own and for the overall score of a health result.
RatingBands ==
    /\ \A r \in ratingOut : RatingMatchesBands(r.score, r.rating)
    /\ \A h \in healthOut :
           RatingMatchesBands(h.result.overall_score, h.result.rating)

\* The score 60, the lower edge of GOOD, has been rated.
RatingBandsWitness ==
    \E r \in ratingOut : r.score = RatInt(60) /\ r.rating = "GOOD"

---------------------------------------------------------------------------
(* The transaction collection and the clock.                               *)

\* Cumulative days at the end of each month of a 365-day year.
MonthEnds == <<31, 59, 90, 120, 151, 181, 212, 243, 273, 304, 334, 365>>

\* df['date'].dt.year and df['date'].dt.month of a day number.
YearOf(d) == (d - 1) \div 365
MonthOf(d) ==
    LET doy == ((d - 1) % 365) + 1
    IN  CHOOSE m \in 1..12 :
            /\ doy <= MonthEnds[m]
            /\ m = 1 \/ doy > MonthEnds[m - 1]

\* How many transactions the caller may assemble.
MaxTx == 3

\* The transactions a caller may hand over: {date, amount, category, type}.
\* With the clock at day 485 (April 30th of year 1) or 486 (May 1st):
\*   day 120  April 30th of year 0: same month, another year, outside 90 days
\*   day 430  March 6th of year 1: inside 90 days, outside 30 days
\*   day 480  April 25th of year 1: inside 30 and 7 days
\*   day 487  May 2nd of year 1: after now
TxPool ==
    { [date |-> 120, amount |-> 120, category |-> "groceries", type |-> "EXPENSE"],
      [date |-> 430, amount |-> 120, category |-> "groceries", type |-> "EXPENSE"],
      [date |-> 480, amount |-> 120, category |-> "groceries", type |-> "EXPENSE"],
      [date |-> 480, amount |-> 300, category |-> "groceries", type |-> "EXPENSE"],
      [date |-> 487, amount |-> 300, category |-> "groceries", type |-> "EXPENSE"],
      [date |-> 480, amount |-> 300, category |-> "groceries", type |-> "INCOME"],
      [date |-> 480, amount |-> 120, category |-> "food", type |-> "EXPENSE"] }

\* The windows analyze_spending_patterns is called with (main.py: 90 by
\* default, 7 for the weekly summary).
WindowDays == {7, 90}

\* The budget maps analyze_budget_performance is called with: any subset of
\* the two categories, "rent" being one no transaction carries.
BudgetMaps ==
    { b \in UNION { [S -> {-100, 0, 300, 400}] : S \in SUBSET {"groceries", "rent"} } :
        "rent" \in DOMAIN b => b["rent"] = 400 }

RECURSIVE SumSeq(_)
SumSeq(s) == IF s = <<>> THEN 0 ELSE Head(s) + SumSeq(Tail(s))

\* [...]['amount'].values of a frame: the amounts of its rows, in row order.
Amounts(rows) == [i \in 1..Len(rows) |-> rows[i].amount]

\* frame[frame['type'] == 'EXPENSE']
ExpenseRows(rows) == SelectSeq(rows, LAMBDA t : t.type = "EXPENSE")

\* frame[frame['category'] == category]
CategoryRows(rows, category) == SelectSeq(rows, LAMBDA t : t.category = category)

\* np.mean of a non-empty sequence of amounts.
Mean(amounts) == Rat(SumSeq(amounts), Len(amounts))

---------------------------------------------------------------------------
(* Budget Performance Evaluator: analyze_budget_performance.               *)

\* df[(df['date'].dt.year == now.year) & (df['date'].dt.month == now.month)]
CurrentMonth(rows, today) ==
    SelectSeq(rows, LAMBDA t : /\ YearOf(t.date) = YearOf(today)
                               /\ MonthOf(t.date) = MonthOf(today))

\* spent_percent = (category_expenses / budget_amount * 100)
\*                 if budget_amount > 0 else 0
SpentPercent(category_expenses, budget_amount) ==
    IF budget_amount > 0
    THEN RatMul(Rat(category_expenses, budget_amount), RatInt(100))
    ELSE Zero

\* A slip that puts 80% itself in the WARNING band.
BudgetStatusInclusive(spent_percent) ==
    IF RatGT(spent_percent, RatInt(100)) THEN "OVER"
    ELSE IF RatGE(spent_percent, RatInt(80)) THEN "WARNING"
    ELSE "ON_TRACK"

\* 'OVER' if spent_percent > 100 else
\*     ('WARNING' if spent_percent > 80 else 'ON_TRACK')
BudgetStatus(spent_percent) ==
    IF RatGT(spent_percent, RatInt(100)) THEN "OVER"
    ELSE IF RatGT(spent_percent, RatInt(80)) THEN "WARNING"
    ELSE "ON_TRACK"

\* One entry of the performance dict.
BudgetEntry(current_month_df, category, budget_amount) ==
    LET category_expenses ==
            SumSeq(Amounts(ExpenseRows(CategoryRows(current_month_df, category))))
        spent_percent == SpentPercent(category_expenses, budget_amount)
    IN  [budget        |-> budget_amount,
         spent         |-> category_expenses,
         remaining     |-> budget_amount - category_expenses,
         spent_percent |-> spent_percent,
         status        |-> BudgetStatus(spent_percent)]

\* analyze_budget_performance.  pd.DataFrame([]) has no columns, so
\* df['date'] on line 168 raises KeyError for an empty list, whatever the
\* budgets are.
AnalyzeBudgetPerformance(txs, budgets, today) ==
    IF txs = <<>>
    THEN [raised |-> "KeyError", performance |-> <<>>]
    ELSE [raised |-> "none",
          performance |->
              [category \in DOMAIN budgets |->
                  BudgetEntry(CurrentMonth(txs, today), category, budgets[category])]]

---------------------------------------------------------------------------
(* Pattern analysis: analyze_spending_patterns and its helpers.            *)

\* A slip that gives the first half the larger share of an odd length.
CalculateTrendUpperSplit(amounts) ==
    IF Len(amounts) < 2 THEN "STABLE"
    ELSE LET half == (Len(amounts) + 1) \div 2
             first_half == Mean(SubSeq(amounts, 1, half))
             second_half == Mean(SubSeq(amounts, half + 1, Len(amounts)))
             change_percent ==
                 IF RatGT(first_half, Zero)
                 THEN RatDiv(RatSub(second_half, first_half), first_half)
                 ELSE Zero
         IN  IF RatGT(change_percent, Rat(1, 10)) THEN "UP"
             ELSE IF RatLT(change_percent, Rat(-1, 10)) THEN "DOWN"
             ELSE "STABLE"

\* A slip that takes the ratio of the halves for the relative change.
CalculateTrendByRatio(amounts) ==
    IF Len(amounts) < 2 THEN "STABLE"
    ELSE LET half == Len(amounts) \div 2
             first_half == Mean(SubSeq(amounts, 1, half))
             second_half == Mean(SubSeq(amounts, half + 1, Len(amounts)))
             change_percent ==
                 IF RatGT(first_half, Zero)
                 THEN RatDiv(second_half, first_half)
                 ELSE Zero
         IN  IF RatGT(change_percent, Rat(1, 10)) THEN "UP"
             ELSE IF RatLT(change_percent, Rat(-1, 10)) THEN "DOWN"
             ELSE "STABLE"

\* FinancialAnalyzer._calculate_trend
CalculateTrend(amounts) ==
    IF Len(amounts) < 2 THEN "STABLE"
    ELSE LET half == Len(amounts) \div 2
             first_half == Mean(SubSeq(amounts, 1, half))
             second_half == Mean(SubSeq(amounts, half + 1, Len(amounts)))
             change_percent ==
                 IF RatGT(first_half, Zero)
                 THEN RatDiv(RatSub(second_half, first_half), first_half)
                 ELSE Zero
         IN  IF RatGT(change_percent, Rat(1, 10)) THEN "UP"
             ELSE IF RatLT(change_percent, Rat(-1, 10)) THEN "DOWN"
             ELSE "STABLE"

\* FinancialAnalyzer._forecast_next_month
ForecastNextMonth(category_data, today) ==
    LET expenses == ExpenseRows(category_data)
        cutoff_date == today - 30
        recent_expenses ==
            Amounts(SelectSeq(expenses, LAMBDA t : t.date >= cutoff_date))
    IN  IF Len(expenses) = 0 THEN Zero
        ELSE IF Len(recent_expenses) = 0 THEN Mean(Amounts(expenses))
        ELSE RatMul(RatInt(SumSeq(recent_expenses)), Rat(30, Len(recent_expenses)))

\* np.std(expenses) squared: the population variance.
Variance(amounts) ==
    LET mean == Mean(amounts)
        sq == [i \in 1..Len(amounts) |->
                  RatMul(RatSub(RatInt(amounts[i]), mean),
                         RatSub(RatInt(amounts[i]), mean))]
        total[i \in 0..Len(amounts)] ==
            IF i = 0 THEN Zero ELSE RatAdd(total[i - 1], sq[i])
    IN  RatDiv(total[Len(amounts)], RatInt(Len(amounts)))

\* The 'amount' column as the array of floats numpy works on: whole
\* amounts, and amounts given as a quotient of two naturals (0.36 is 9/25),
\* each the float nearest to it.
FloatAmounts(expenses) == [i \in 1..Len(expenses) |-> FloatFromInt(expenses[i])]

DecimalAmounts(expenses) == [i \in 1..Len(expenses) |-> FloatFromRat(expenses[i])]

\* The deviations of the expenses from np.mean(expenses), and
\* np.std(expenses): the root of the mean of their squares.  Fewer than 8
\* numbers are summed one after the other.
FloatMean(expenses) == FloatDiv(FloatSum(expenses), FloatFromInt(Len(expenses)))

FloatDeviations(expenses) ==
    LET mean == FloatMean(expenses)
    IN  [i \in 1..Len(expenses) |-> FloatSub(expenses[i], mean)]

FloatStd(expenses) ==
    LET deviations == FloatDeviations(expenses)
        squares == [i \in 1..Len(expenses) |->
                       With(deviations[i], LAMBDA x : FloatMul(x, x))]
    IN  FloatSqrt(FloatDiv(FloatSum(squares), FloatFromInt(Len(expenses))))

\* A slip that tests the value farthest from the mean, not the last one.
ZScoreOfExtreme(expenses) ==
    LET std == FloatStd(expenses)
        deviations == FloatDeviations(expenses)
        farthest == CHOOSE i \in 1..Len(expenses) :
                        \A j \in 1..Len(expenses) :
                            ~FloatGT(FloatAbs(deviations[j]), FloatAbs(deviations[i]))
    IN  IF FloatGT(std, FloatZero)
        THEN FloatAbs(FloatDiv(deviations[farthest], std))
        ELSE FloatZero

\* z_score = abs((recent_expense - mean) / std) if std > 0 else 0
ZScore(expenses) ==
    LET recent_expense == expenses[Len(expenses)]
    IN  With(FloatStd(expenses), LAMBDA std :
            IF FloatGT(std, FloatZero)
            THEN FloatAbs(FloatDiv(FloatSub(recent_expense, FloatMean(expenses)), std))
            ELSE FloatZero)

\* A slip that compares the square of the z-score with the threshold.
ZScoreSquaredExceeds(z_score, threshold) ==
    FloatGT(FloatMul(z_score, z_score), FloatFromRat(threshold))

\* z_score > threshold
ZScoreExceeds(z_score, threshold) == FloatGT(z_score, FloatFromRat(threshold))

\* f"{z_score:.1f}", as the number of tenths.
ZScoreTenths(z_score) == FloatTenths(z_score)

\* A slip that flags without giving the reason.
DetectAnomaliesWithoutReason(expenses, threshold) ==
    IF Len(expenses) < 3
    THEN [anomaly_detected |-> FALSE, anomaly_reason |-> <<>>]
    ELSE [anomaly_detected |-> ZScoreExceeds(ZScore(expenses), threshold),
          anomaly_reason |-> <<>>]

\* FinancialAnalyzer._detect_anomalies from its second line on, expenses
\* being the array of the first.  The reason is <<>> for None, else the
\* text of the f-string around the formatted z-score.
DetectAnomaliesIn(expenses, threshold) ==
    IF Len(expenses) < 3
    THEN [anomaly_detected |-> FALSE, anomaly_reason |-> <<>>]
    ELSE With(ZScore(expenses), LAMBDA z_score :
             IF ZScoreExceeds(z_score, threshold)
             THEN [anomaly_detected |-> TRUE,
                   anomaly_reason |->
                       <<"Spending", ZScoreTenths(z_score),
                         "std deviations above average">>]
             ELSE [anomaly_detected |-> FALSE, anomaly_reason |-> <<>>])

\* FinancialAnalyzer._detect_anomalies on rows of whole amounts, and on
\* rows whose amounts are quotients.
DetectAnomalies(category_data, threshold) ==
    DetectAnomaliesIn(FloatAmounts(Amounts(ExpenseRows(category_data))), threshold)

DetectAnomaliesOfDecimals(category_data, threshold) ==
    DetectAnomaliesIn(DecimalAmounts(Amounts(ExpenseRows(category_data))), threshold)

\* cutoff_date = datetime.now() - timedelta(days=days)
\* df = df[df['date'] >= cutoff_date]
WindowRows(rows, days, today) ==
    SelectSeq(rows, LAMBDA t : t.date >= today - days)

\* df['category'].unique()
Categories(rows) == {rows[i].category : i \in 1..Len(rows)}

\* One entry of the patterns dict.
PatternEntry(category_data, days, today, threshold) ==
    LET expenses == Amounts(ExpenseRows(category_data))
    IN  With(DetectAnomalies(category_data, threshold), LAMBDA anomaly :
            [monthly_average |->
                 RatDiv(RatMul(Mean(expenses), RatInt(30)), Rat(days, 30)),
             trend |-> CalculateTrend(expenses),
             forecast_next_month |-> ForecastNextMonth(category_data, today),
             anomaly_detected |-> anomaly.anomaly_detected,
             anomaly_reason |-> anomaly.anomaly_reason,
             transaction_count |-> Len(category_data),
             total_spent |-> SumSeq(expenses)])

\* The categories of the window that get an entry: those with an expense.
PatternCategories(df) ==
    {category \in Categories(df) : Len(ExpenseRows(CategoryRows(df, category))) # 0}

\* A slip that keeps the last result and returns it again without looking
\* at the arguments of the new call.
AnalyzeSpendingPatternsMemo(txs, days, today, threshold) ==
    IF patternsOut # {} THEN (CHOOSE p \in patternsOut : TRUE).result
    ELSE IF txs = <<>> THEN <<>>
    ELSE LET df == WindowRows(txs, days, today)
         IN  [category \in PatternCategories(df) |->
                 PatternEntry(CategoryRows(df, category), days, today, threshold)]

\* analyze_spending_patterns
AnalyzeSpendingPatterns(txs, days, today, threshold) ==
    IF txs = <<>> THEN <<>>
    ELSE LET df == WindowRows(txs, days, today)
         IN  [category \in PatternCategories(df) |->
                 PatternEntry(CategoryRows(df, category), days, today, threshold)]

\* The rows whose amounts analyze_spending_patterns hands to
\* _calculate_trend and _detect_anomalies, per category, in the order handed.
HandedSeries(txs, days, today) ==
    LET df == WindowRows(txs, days, today)
    IN  [category \in PatternCategories(df) |->
            ExpenseRows(CategoryRows(df, category))]

---------------------------------------------------------------------------
(* The caller and the engine's calls.                                      *)

\* The caller adds a transaction to the collection it will hand over.
AddTransaction ==
    \E tx \in TxPool :
        /\ Len(transactions) < MaxTx
        /\ transactions' = Append(transactions, tx)
        /\ budgetOut' = {}
        /\ patternsOut' = {}
        /\ UNCHANGED <<serviceVars, now, anomaly_threshold, healthOut, ratingOut, otherVars>>

\* A day passes.
Tick ==
    /\ now < StartDay + MaxTicks
    /\ now' = now + 1
    /\ budgetOut' = {}
    /\ patternsOut' = {}
    /\ UNCHANGED <<serviceVars, anomaly_threshold, transactions, healthOut, ratingOut, otherVars>>

CallAnalyzeBudgetPerformance ==
    \E budgets \in BudgetMaps :
        /\ budgetOut' =
              {[transactions |-> transactions,
                budgets      |-> budgets,
                today        |-> now,
                result       |-> AnalyzeBudgetPerformance(transactions, budgets, now)]}
        /\ patternsOut' = {}
        /\ UNCHANGED <<serviceVars, now, anomaly_threshold, transactions, healthOut, ratingOut, otherVars>>

CallAnalyzeSpendingPatterns ==
    \E days \in WindowDays :
        /\ patternsOut' =
              {[transactions |-> transactions,
                days         |-> days,
                today        |-> now,
                series       |-> IF transactions = <<>> THEN <<>>
                                 ELSE HandedSeries(transactions, days, now),
                result       |-> AnalyzeSpendingPatterns(transactions, days, now,
                                                         anomaly_threshold)]}
        /\ budgetOut' = {}
        /\ UNCHANGED <<serviceVars, now, anomaly_threshold, transactions, healthOut, ratingOut, otherVars>>

Next ==
    \/ AddTransaction
    \/ Tick
    \/ CallAnalyzeBudgetPerformance
    \/ CallAnalyzeSpendingPatterns

Spec == Init /\ [][Next]_vars

---------------------------------------------------------------------------
(* Properties of the budget evaluator and the pattern analysis, checked    *)
(* under Spec.                                                             *)

\* C6: every category of a budget result has exactly one status, decided by
\* spent_percent alone: OVER iff spent_percent > 100, WARNING iff
\* 80 < spent_percent <= 100, ON_TRACK iff spent_percent <= 80.
BudgetStatusByPercent ==
    \A b \in budgetOut :
        \A c \in DOMAIN b.result.performance :
            LET e == b.result.performance[c]
            IN  /\ e.status \in {"OVER", "WARNING", "ON_TRACK"}
                /\ e.status = "OVER" <=> RatGT(e.spent_percent, RatInt(100))
                /\ e.status = "WARNING" <=>
                       (/\ RatGT(e.spent_percent, RatInt(80))
                        /\ RatLE(e.spent_percent, RatInt(100)))
                /\ e.status = "ON_TRACK" <=> RatLE(e.spent_percent, RatInt(80))

\* A call has returned a category that spent exactly 80% of its budget and
\* is ON_TRACK.
BudgetStatusWitness ==
    \E b \in budgetOut :
        \E c \in DOMAIN b.result.performance :
            /\ b.result.performance[c].spent_percent = RatInt(80)
            /\ b.result.performance[c].status = "ON_TRACK"

\* The EXPENSE amounts of a category dated in the calendar month of a day,
\* summed over the positions of the collection.
RECURSIVE MonthSpend(_, _, _, _)
MonthSpend(txs, category, today, i) ==
    IF i = 0 THEN 0
    ELSE MonthSpend(txs, category, today, i - 1)
         + (IF /\ txs[i].category = category
               /\ txs[i].type = "EXPENSE"
               /\ YearOf(txs[i].date) = YearOf(today)
               /\ MonthOf(txs[i].date) = MonthOf(today)
            THEN txs[i].amount ELSE 0)

BudgetFiguresOf(b, c) ==
    LET spent == MonthSpend(b.transactions, c, b.today, Len(b.transactions))
        e == b.result.performance[c]
    IN  /\ e.budget = b.budgets[c]
        /\ e.spent = spent
        /\ e.remaining = b.budgets[c] - spent
        /\ e.spent_percent =
               IF b.budgets[c] > 0 THEN Rat(spent * 100, b.budgets[c]) ELSE Zero
        /\ (b.budgets[c] = 400 /\ spent = 420)
           => /\ e.spent_percent = RatInt(105)
              /\ e.status = "OVER"
              /\ e.remaining = -20

\* C7: for every budgeted category, analyze_budget_performance reports
\* spent = the EXPENSE amounts of the category dated in the current calendar
\* month, remaining = budget - spent, spent_percent = spent / budget * 100
\* for a budget > 0 and 0 otherwise; budget 400 with 420 spent gives 105,
\* OVER and -20.
BudgetFigures ==
    \A b \in budgetOut :
        \A c \in DOMAIN b.budgets :
            /\ c \in DOMAIN b.result.performance
            /\ BudgetFiguresOf(b, c)

\* What holds of C7 in the code: the figures are right in every call that
\* returns, which is every call with a non-empty collection.
BudgetFiguresWhenReturned ==
    \A b \in budgetOut :
        /\ b.result.raised = "none" <=> b.transactions # <<>>
        /\ b.result.raised = "none"
           => /\ DOMAIN b.result.performance = DOMAIN b.budgets
              /\ \A c \in DOMAIN b.budgets : BudgetFiguresOf(b, c)

\* C8: an empty transaction collection never raises: budget analysis
\* returns one entry per budgeted category with spent 0, and pattern
\* analysis returns the empty mapping.
EmptyCollectionNeverRaises ==
    /\ \A b \in budgetOut :
           b.transactions = <<>>
           => /\ b.result.raised = "none"
              /\ DOMAIN b.result.performance = DOMAIN b.budgets
              /\ \A c \in DOMAIN b.budgets : b.result.performance[c].spent = 0
    /\ \A p \in patternsOut :
           p.transactions = <<>> => p.result = <<>>

\* The transactions dated within [today - days, today].
InWindow(txs, days, today) ==
    SelectSeq(txs, LAMBDA t : t.date >= today - days /\ t.date <= today)

\* C9: analyze_spending_patterns uses only the transactions dated within
\* [now - days, now]: its result is the result for the collection with every
\* transaction dated before now - days or after now removed.
PatternsUseOnlyWindow ==
    \A p \in patternsOut :
        p.result = AnalyzeSpendingPatterns(InWindow(p.transactions, p.days, p.today),
                                           p.days, p.today, anomaly_threshold)

DateAscending(rows) ==
    \A i \in 1..Len(rows) : \A j \in 1..Len(rows) :
        i < j => rows[i].date <= rows[j].date

\* C10: the per-category amount sequence handed to the trend classifier and
\* the z-score detector is in date-ascending order, whatever order the
\* caller supplied the transactions in.
SeriesDateAscending ==
    \A p \in patternsOut :
        \A c \in DOMAIN p.series : DateAscending(p.series[c])

---------------------------------------------------------------------------
(* Repeated calls: a caller that keeps an earlier call of the evaluators   *)
(* and calls them again later, with other calls and days in between.       *)

\* How many transactions the repeating caller assembles.
MaxRepeatTx == 2

\* Its transactions.  Day 478 is inside a 7-day window on day 485 and
\* outside it on day 486; day 480 is in the current month on day 485 (April)
\* and not on day 486 (May).
RepeatPool ==
    { [date |-> 478, amount |-> 120, category |-> "groceries", type |-> "EXPENSE"],
      [date |-> 480, amount |-> 300, category |-> "groceries", type |-> "EXPENSE"],
      [date |-> 487, amount |-> 300, category |-> "groceries", type |-> "EXPENSE"] }

\* The caller assembles its collection before the call it keeps.
AddRepeatTransaction ==
    \E tx \in RepeatPool :
        /\ earlier = <<{}, {}>>
        /\ Len(transactions) < MaxRepeatTx
        /\ transactions' = Append(transactions, tx)
        /\ budgetOut' = {}
        /\ patternsOut' = {}
        /\ UNCHANGED <<serviceVars, now, anomaly_threshold, healthOut, ratingOut, earlier,
                       seriesOut, predictOut, anomalyOut, savingsOut>>

\* The caller keeps the call that has just returned.
KeepCall ==
    /\ earlier = <<{}, {}>>
    /\ patternsOut # {} \/ budgetOut # {}
    /\ earlier' = <<patternsOut, budgetOut>>
    /\ UNCHANGED <<serviceVars, now, anomaly_threshold, transactions, healthOut, ratingOut,
                   budgetOut, patternsOut, seriesOut, predictOut, anomalyOut,
                   savingsOut>>

NextRepeat ==
    \/ AddRepeatTransaction
    \/ KeepCall
    \/ Tick
    \/ CallAnalyzeBudgetPerformance
    \/ CallAnalyzeSpendingPatterns

SpecRepeat == Init /\ [][NextRepeat]_vars

---------------------------------------------------------------------------
(* The helpers on a series of their own: _calculate_trend on an array of   *)
(* amounts and _detect_anomalies on the rows of one category, one call in  *)
(* a behaviour.                                                            *)

\* The longest series handed to a helper.
MaxSeriesLen == 4

\* The amounts of a series: a refund, nothing, and purchases; 132 is 120
\* and a tenth more.
SeriesAmounts == {-50, 0, 120, 132, 300}

\* The rows of one category: expenses of four amounts and an income.
SeriesRows ==
    { [date |-> 480, amount |-> a, category |-> "groceries", type |-> "EXPENSE"]
          : a \in {0, 120, 300, 500} }
    \cup { [date |-> 480, amount |-> 300, category |-> "groceries", type |-> "INCOME"] }

\* The thresholds a caller passes to _detect_anomalies.
SeriesThresholds == {RatInt(-1), Zero, Rat(1, 2), RatInt(2)}

\* All sequences over a set, up to the longest series.
SeriesOver(S) == UNION {[1..n -> S] : n \in 0..MaxSeriesLen}

\* self._calculate_trend(expenses)
CallCalculateTrend ==
    \E amounts \in SeriesOver(SeriesAmounts) :
        /\ seriesOut = {}
        /\ seriesOut' = {[fn |-> "_calculate_trend",
                          amounts |-> amounts,
                          trend |-> CalculateTrend(amounts)]}
        /\ UNCHANGED <<serviceVars, now, anomaly_threshold, transactions, healthOut, ratingOut,
                       budgetOut, patternsOut, earlier, predictOut, anomalyOut,
                       savingsOut>>

\* self._detect_anomalies(category_data, self.anomaly_threshold)
CallDetectAnomalies ==
    \E category_data \in SeriesOver(SeriesRows), threshold \in SeriesThresholds :
        /\ seriesOut = {}
        /\ seriesOut' = {[fn |-> "_detect_anomalies",
                          category_data |-> category_data,
                          threshold |-> threshold,
                          anomaly |-> DetectAnomalies(category_data, threshold)]}
        /\ UNCHANGED <<serviceVars, now, anomaly_threshold, transactions, healthOut, ratingOut,
                       budgetOut, patternsOut, earlier, predictOut, anomalyOut,
                       savingsOut>>

\* The rows of one category handed to _forecast_next_month: an expense 55
\* days back, one 5 days back, one dated 2 days ahead, and an income.
ForecastRows ==
    { [date |-> StartDay - 55, amount |-> 120, category |-> "groceries", type |-> "EXPENSE"],
      [date |-> StartDay - 5, amount |-> 300, category |-> "groceries", type |-> "EXPENSE"],
      [date |-> StartDay + 2, amount |-> 120, category |-> "groceries", type |-> "EXPENSE"],
      [date |-> StartDay - 5, amount |-> 300, category |-> "groceries", type |-> "INCOME"] }

\* self._forecast_next_month(category_data, category)
CallForecastNextMonth ==
    \E category_data \in SeriesOver(ForecastRows) :
        /\ seriesOut = {}
        /\ seriesOut' = {[fn |-> "_forecast_next_month",
                          category_data |-> category_data,
                          today |-> now,
                          forecast |-> ForecastNextMonth(category_data, now)]}
        /\ UNCHANGED <<serviceVars, now, anomaly_threshold, transactions, healthOut, ratingOut,
                       budgetOut, patternsOut, earlier, predictOut, anomalyOut,
                       savingsOut>>

NextSeries == CallCalculateTrend \/ CallDetectAnomalies \/ CallForecastNextMonth

SpecSeries == Init /\ [][NextSeries]_vars

\* All the elements of a sequence are the same value.
AllIdentical(s) == \A i, j \in 1..Len(s) : s[i] = s[j]

\* C12: _calculate_trend returns "STABLE" for every constant sequence of
\* amounts, of any length (0 and 1 included) and of any value (all zero
\* included).
ConstantSeriesIsStable ==
    \A s \in seriesOut :
        (s.fn = "_calculate_trend" /\ AllIdentical(s.amounts))
        => s.trend = "STABLE"

\* A constant series with two halves of a positive amount was rated.
ConstantSeriesWitness ==
    \E s \in seriesOut :
        /\ s.fn = "_calculate_trend"
        /\ Len(s.amounts) = MaxSeriesLen
        /\ AllIdentical(s.amounts)
        /\ s.amounts[1] = 300
        /\ s.trend = "STABLE"

\* The rows of one category whose amounts are not whole: 0.36, 0.50 and
\* 19.99 as expenses, and an income.
DecimalRows ==
    { [date |-> 480, amount |-> a, category |-> "groceries", type |-> "EXPENSE"]
          : a \in {Rat(36, 100), Rat(50, 100), Rat(1999, 100)} }
    \cup { [date |-> 480, amount |-> Rat(50, 100), category |-> "groceries",
            type |-> "INCOME"] }

\* self._detect_anomalies(category_data, self.anomaly_threshold) on such
\* rows.
CallDetectAnomaliesOnDecimals ==
    \E category_data \in SeriesOver(DecimalRows), threshold \in SeriesThresholds :
        /\ seriesOut = {}
        /\ seriesOut' = {[fn |-> "_detect_anomalies",
                          category_data |-> category_data,
                          threshold |-> threshold,
                          anomaly |-> DetectAnomaliesOfDecimals(category_data, threshold)]}
        /\ UNCHANGED <<serviceVars, now, anomaly_threshold, transactions, healthOut, ratingOut,
                       budgetOut, patternsOut, earlier, predictOut, anomalyOut,
                       savingsOut>>

NextDecimals == CallDetectAnomaliesOnDecimals

SpecDecimals == Init /\ [][NextDecimals]_vars

\* C13: _detect_anomalies never flags a category whose expense amounts are
\* all identical, whatever the number of rows and for every threshold >= 0.
IdenticalExpensesNeverFlagged ==
    \A s \in seriesOut :
        (/\ s.fn = "_detect_anomalies"
         /\ AllIdentical(Amounts(ExpenseRows(s.category_data)))
         /\ RatGE(s.threshold, Zero))
        => ~s.anomaly.anomaly_detected

\* The part of C13 the code keeps: a category of identical amounts is
\* flagged only under a threshold below 1, where a zero threshold gives
\* the reason 1.0 standard deviations.
IdenticalExpensesFlaggedOnlyBelowOne ==
    \A s \in seriesOut :
        (/\ s.fn = "_detect_anomalies"
         /\ AllIdentical(Amounts(ExpenseRows(s.category_data)))
         /\ s.anomaly.anomaly_detected)
        => /\ RatLT(s.threshold, RatInt(1))
           /\ RatGE(s.threshold, Zero) =>
                  s.anomaly.anomaly_reason =
                      <<"Spending", 10, "std deviations above average">>

---------------------------------------------------------------------------
(* SpendingPredictor (src/ml_models/predictor.py).                         *)

\* How many transactions the caller of the predictor assembles.
MaxPredictTx == 6

\* Its transactions: dicts, some without the "amount" or the "category"
\* key.  40 then nothing is a steep decline of non-negative amounts; -60 is
\* a refund.
PredictPool ==
    { [category |-> "groceries", amount |-> 40],
      [category |-> "groceries"],
      [category |-> "groceries", amount |-> -60],
      [amount |-> 10] }

\* tx.get("category", "other")
TxCategory(tx) == IF "category" \in DOMAIN tx THEN tx.category ELSE "other"

\* float(tx.get("amount", 0))
TxAmount(tx) == IF "amount" \in DOMAIN tx THEN tx.amount ELSE 0

\* SpendingPredictor._group_by_category: category -> amounts in list order.
GroupByCategory(txs) ==
    [category \in {TxCategory(txs[i]) : i \in 1..Len(txs)} |->
        LET rows == SelectSeq(txs, LAMBDA tx : TxCategory(tx) = category)
        IN  [i \in 1..Len(rows) |-> TxAmount(rows[i])]]

\* np.sum of a sequence of rationals.
RECURSIVE RatSum(_)
RatSum(s) == IF s = <<>> THEN Zero ELSE RatAdd(Head(s), RatSum(Tail(s)))

\* SpendingPredictor._calculate_trend: <<slope, intercept>> of the least
\* squares line through (0, y[1]), (1, y[2]), ...
TrendLine(amounts) ==
    IF Len(amounts) < 2
    THEN <<Zero, IF amounts = <<>> THEN Zero ELSE Mean(amounts)>>
    ELSE LET n == Len(amounts)
             mean_x == Rat(n - 1, 2)
             mean_y == Mean(amounts)
             dx == [i \in 1..n |-> RatSub(RatInt(i - 1), mean_x)]
             dy == [i \in 1..n |-> RatSub(RatInt(amounts[i]), mean_y)]
             numerator == RatSum([i \in 1..n |-> RatMul(dx[i], dy[i])])
             denominator == RatSum([i \in 1..n |-> RatMul(dx[i], dx[i])])
             slope == IF denominator # Zero THEN RatDiv(numerator, denominator)
                      ELSE Zero
         IN  <<slope, RatSub(mean_y, RatMul(slope, mean_x))>>

\* np.exp(np.linspace(0, 1, n)) in thousandths, for n = 1 .. 7.
ExpWeights ==
    << <<1000>>,
       <<1000, 2718>>,
       <<1000, 1649, 2718>>,
       <<1000, 1396, 1948, 2718>>,
       <<1000, 1284, 1649, 2117, 2718>>,
       <<1000, 1221, 1492, 1822, 2226, 2718>>,
       <<1000, 1181, 1396, 1649, 1948, 2301, 2718>> >>

\* SpendingPredictor._predict_next_period
PredictNextPeriod(amounts, trend, intercept) ==
    IF Len(amounts) = 0 THEN Zero
    ELSE LET weights == ExpWeights[Len(amounts)]
             recent_avg ==
                 Rat(SumSeq([i \in 1..Len(amounts) |-> amounts[i] * weights[i]]),
                     SumSeq(weights))
             trend_adjustment == RatMul(trend, RatInt(5))
         IN  RatAdd(recent_avg, RatMul(trend_adjustment, Rat(1, 10)))

\* round(x, 2): to the nearest hundredth, a tie to the even hundredth.
RoundCents(x) ==
    LET magnitude == Rat(Abs(x[1]), x[2])
        whole == magnitude[1] \div magnitude[2]
        rest == magnitude[1] % magnitude[2]
        cents == (rest * 100) \div magnitude[2]
        left == (rest * 100) % magnitude[2]
        up == \/ 2 * left > magnitude[2]
              \/ 2 * left = magnitude[2] /\ cents % 2 = 1
        hundredths == whole * 100 + cents + (IF up THEN 1 ELSE 0)
    IN  Rat(IF x[1] < 0 THEN -hundredths ELSE hundredths, 100)

\* A slip that rounds the prediction and leaves its sign alone.
RoundedPrediction(predicted) == RoundCents(predicted)

\* max(0, round(predicted, 2))
ClampedPrediction(predicted) == RatMax(Zero, RoundCents(predicted))

\* A number rat - sqrt(root), root >= 0: the form of 1 - cv * 0.5, whose cv
\* is a square root.  A rational r is r - sqrt(0).
Surd(rat, root) == [rat |-> rat, root |-> root]

\* x < r and x > r for x = x.rat - sqrt(x.root) and a rational r.
SurdLT(x, r) ==
    LET gap == RatSub(x.rat, r)
    IN  RatLT(gap, Zero) \/ RatGT(x.root, RatMul(gap, gap))

SurdGT(x, r) ==
    LET gap == RatSub(x.rat, r)
    IN  RatGT(gap, Zero) /\ RatLT(x.root, RatMul(gap, gap))

\* max(r, x) and min(r, x) as Python evaluates them: x only if it is
\* strictly greater (smaller) than r.
SurdMax(r, x) == IF SurdGT(x, r) THEN x ELSE Surd(r, Zero)
SurdMin(r, x) == IF SurdLT(x, r) THEN x ELSE Surd(r, Zero)

\* A slip that leaves out the floor of 0.3.
CalculateConfidenceNoFloor(amounts) ==
    IF Len(amounts) < 2 THEN Surd(Rat(1, 2), Zero)
    ELSE LET mean == Mean(amounts)
             cv_squared ==
                 IF RatGT(mean, Zero)
                 THEN RatDiv(Variance(amounts),
                             RatMul(RatAdd(mean, RatInt(1)), RatAdd(mean, RatInt(1))))
                 ELSE Zero
             confidence == Surd(RatInt(1), RatMul(cv_squared, Rat(1, 4)))
         IN  SurdMin(RatInt(1), confidence)

\* SpendingPredictor._calculate_confidence.  std is a square root, so cv is
\* kept as its square and 1 - cv * 0.5 as a Surd.
CalculateConfidence(amounts) ==
    IF Len(amounts) < 2 THEN Surd(Rat(1, 2), Zero)
    ELSE LET mean == Mean(amounts)
             cv_squared ==
                 IF RatGT(mean, Zero)
                 THEN RatDiv(Variance(amounts),
                             RatMul(RatAdd(mean, RatInt(1)), RatAdd(mean, RatInt(1))))
                 ELSE Zero
             confidence ==
                 SurdMax(Rat(3, 10), Surd(RatInt(1), RatMul(cv_squared, Rat(1, 4))))
         IN  SurdMin(RatInt(1), confidence)

\* A slip that still refuses a history of exactly 5 transactions.
InsufficientHistoryAtFive(txs) == Len(txs) <= 5

\* not transactions or len(transactions) < 5
InsufficientHistory(txs) == txs = <<>> \/ Len(txs) < 5

\* What _predict_next_period returns for the amounts of one category.
Predicted(amounts) ==
    LET line == TrendLine(amounts)
    IN  PredictNextPeriod(amounts, line[1], line[2])

\* SpendingPredictor.predict_spending
PredictSpending(txs) ==
    IF InsufficientHistory(txs)
    THEN [error |-> "Insufficient transaction history"]
    ELSE LET category_data == GroupByCategory(txs)
             kept == {category \in DOMAIN category_data :
                          ~(Len(category_data[category]) < 2)}
         IN  [predicted_spending |->
                  [category \in kept |->
                      ClampedPrediction(Predicted(category_data[category]))],
              confidence |->
                  [category \in kept |-> CalculateConfidence(category_data[category])],
              prediction_period |-> "30_days",
              model_version |-> "1.0"]

\* The caller appends a transaction to the list it will hand over.
AddPredictTransaction ==
    \E tx \in PredictPool :
        /\ Len(transactions) < MaxPredictTx
        /\ transactions' = Append(transactions, tx)
        /\ predictOut' = {}
        /\ UNCHANGED <<serviceVars, now, anomaly_threshold, healthOut, ratingOut, budgetOut,
                       patternsOut, earlier, seriesOut, anomalyOut, savingsOut>>

\* predictor.predict_spending(transactions)
CallPredictSpending ==
    /\ predictOut' = {[transactions |-> transactions,
                       result |-> PredictSpending(transactions)]}
    /\ UNCHANGED <<serviceVars, now, anomaly_threshold, transactions, healthOut, ratingOut,
                   budgetOut, patternsOut, earlier, seriesOut, anomalyOut,
                   savingsOut>>

NextPredict == AddPredictTransaction \/ CallPredictSpending

SpecPredict == Init /\ [][NextPredict]_vars

\* The calls that returned predictions.
Predictions == {p \in predictOut : "predicted_spending" \in DOMAIN p.result}

\* C14: every value of predicted_spending is >= 0, also when the fitted
\* slope is steeply negative or the amounts are negative.
PredictedSpendingNonNegative ==
    \A p \in Predictions :
        \A c \in DOMAIN p.result.predicted_spending :
            RatGE(p.result.predicted_spending[c], Zero)

\* A category of non-negative amounts whose declining line takes the
\* prediction below zero got the prediction 0.
NegativeSlopeClampedWitness ==
    \E p \in Predictions :
        \E c \in DOMAIN p.result.predicted_spending :
            LET amounts == GroupByCategory(p.transactions)[c]
            IN  /\ \A i \in 1..Len(amounts) : amounts[i] >= 0
                /\ RatLT(TrendLine(amounts)[1], Zero)
                /\ RatLT(Predicted(amounts), Zero)
                /\ p.result.predicted_spending[c] = Zero

\* C15: every value of the confidence mapping lies in [0.3, 1.0], and the
\* mapping has exactly the keys of predicted_spending.
ConfidenceWithinBand ==
    \A p \in Predictions :
        /\ DOMAIN p.result.confidence = DOMAIN p.result.predicted_spending
        /\ \A c \in DOMAIN p.result.confidence :
               /\ ~SurdLT(p.result.confidence[c], Rat(3, 10))
               /\ ~SurdGT(p.result.confidence[c], RatInt(1))

\* One call rated a scattered category at the floor 0.3 and a steady one
\* at 1.0.
ConfidenceBandWitness ==
    \E p \in Predictions :
        /\ \E c \in DOMAIN p.result.confidence :
               LET amounts == GroupByCategory(p.transactions)[c]
               IN  /\ RatGT(Mean(amounts), Zero)
                   /\ RatGT(Variance(amounts),
                            RatMul(Rat(196, 100),
                                   RatMul(RatAdd(Mean(amounts), RatInt(1)),
                                          RatAdd(Mean(amounts), RatInt(1)))))
                   /\ p.result.confidence[c] = Surd(Rat(3, 10), Zero)
        /\ \E c \in DOMAIN p.result.confidence :
               p.result.confidence[c] = Surd(RatInt(1), Zero)

\* How many transactions of a list fall to a category.
CountOf(txs, category) ==
    Cardinality({i \in 1..Len(txs) : TxCategory(txs[i]) = category})

\* C16: predict_spending returns the insufficient-history result, without
\* predictions, exactly when fewer than 5 transactions are supplied; with 5
\* or more, predicted_spending holds exactly the categories with at least 2
\* transactions.
InsufficientIffFewerThanFive ==
    \A p \in predictOut :
        /\ ("error" \in DOMAIN p.result) <=> (Len(p.transactions) < 5)
        /\ "error" \in DOMAIN p.result
               => p.result = [error |-> "Insufficient transaction history"]
        /\ "error" \notin DOMAIN p.result
               => DOMAIN p.result.predicted_spending
                      = {c \in {TxCategory(p.transactions[i]) : i \in 1..Len(p.transactions)} :
                             CountOf(p.transactions, c) >= 2}

\* A list of exactly 5 transactions got predictions for the category with
\* four of them and none for the category with one.
ExactlyFiveWitness ==
    \E p \in predictOut :
        /\ Len(p.transactions) = 5
        /\ "error" \notin DOMAIN p.result
        /\ CountOf(p.transactions, "other") = 1
        /\ DOMAIN p.result.predicted_spending = {"groceries"}

---------------------------------------------------------------------------
(* AnomalyDetector (src/ml_models/predictor.py).                           *)

\* How many transactions the caller of the detector assembles.
MaxAnomalyTx == 10

\* How many of them are not the routine purchase.
MaxUnusual == 4

\* The routine purchase and the other kinds of transaction the caller
\* assembles; the date of a transaction is its place in the list.
RoutineKind == [category |-> "groceries", amount |-> 1]

AnomalyKinds ==
    { RoutineKind,
      [category |-> "groceries", amount |-> 10],
      [category |-> "food", amount |-> 10] }

\* AnomalyDetector(z_threshold): the default 2.5 and a stricter detector.
ZThresholds == {Rat(5, 2), Rat(1, 2)}

\* Whether a^2 is below (-1), equal to (0) or above (1) b^2 * v, for
\* 0 <= a, b < 10^8 and 0 <= v < 10^4, on numbers written to the base 10^4
\* so that no product leaves 32 bits.
CompareSquares(a, b, v) ==
    LET B == 10000
        Square(x) ==
            LET x0 == x % B
                x1 == x \div B
                c0 == x0 * x0
                c1 == c0 \div B + 2 * x1 * x0
                c2 == c1 \div B + x1 * x1
            IN  <<c0 % B, c1 % B, c2 % B, c2 \div B, 0>>
        Times(x, m) ==
            LET c1 == x[1] * m
                c2 == c1 \div B + x[2] * m
                c3 == c2 \div B + x[3] * m
                c4 == c3 \div B + x[4] * m
            IN  <<c1 % B, c2 % B, c3 % B, c4 % B, c4 \div B>>
        left == Square(a)
        right == Times(Square(b), v)
        differ == {i \in 1..5 : left[i] # right[i]}
    IN  IF differ = {} THEN 0
        ELSE LET top == CHOOSE i \in differ : \A j \in differ : j <= i
             IN  IF left[top] > right[top] THEN 1 ELSE -1

\* Sums that np.mean and np.std are made of: with n amounts of sum s and
\* sum of squares q, mean = s / n and std = sqrt(n * q - s * s) / n.
SumOfSquares(amounts) == SumSeq([i \in 1..Len(amounts) |-> amounts[i] * amounts[i]])

VarianceTimesNSquared(amounts) ==
    Len(amounts) * SumOfSquares(amounts) - SumSeq(amounts) * SumSeq(amounts)

\* n * (item["amount"] - mean)
DeviationTimesN(amount, amounts) == Len(amounts) * amount - SumSeq(amounts)

\* round(scale * abs(z_score)) for z_score = (amount - mean) / (std + 0.01),
\* std > 0, found by bisection between lo (not above the value) and hi
\* (above it).  With d = n * (amount - mean) and v = n^2 * variance,
\* scale * |z| >= h - 1/2 is
\*     200 * scale * |d| - (2h - 1) * n >= 100 * (2h - 1) * sqrt(v),
\* decided on the squares.  A tie goes to the even neighbour.
RECURSIVE RoundScaledZ(_, _, _, _, _, _)
RoundScaledZ(d, n, v, scale, lo, hi) ==
    LET Reaches(h) ==
            LET a == 200 * scale * Abs(d) - (2 * h - 1) * n
            IN  IF h = 0 THEN 1
                ELSE IF a < 0 THEN -1
                ELSE CompareSquares(a, 100 * (2 * h - 1), v)
    IN  IF hi - lo <= 1
        THEN IF Reaches(lo) = 0 /\ lo % 2 = 1 THEN lo - 1 ELSE lo
        ELSE LET mid == (lo + hi) \div 2
             IN  IF Reaches(mid) >= 0
                 THEN RoundScaledZ(d, n, v, scale, mid, hi)
                 ELSE RoundScaledZ(d, n, v, scale, lo, mid)

\* The z-score of an amount among the amounts of its category, to two
\* decimals (scale 100) or one (scale 10), without its sign.  |z| is below
\* sqrt(n), so below n.
AbsZScoreRounded(amount, amounts, scale) ==
    LET n == Len(amounts)
        v == VarianceTimesNSquared(amounts)
    IN  IF v > 0
        THEN RoundScaledZ(DeviationTimesN(amount, amounts), n, v, scale, 0, scale * n)
        ELSE 0

\* abs(z_score) > self.z_threshold, for z_score = (amount - mean) /
\* (std + 0.01) if std > 0 else 0 and a threshold p / q:
\*     100 * q * |d| - p * n > 100 * p * sqrt(v).
AbsZExceeds(amount, amounts, threshold) ==
    LET n == Len(amounts)
        v == VarianceTimesNSquared(amounts)
        a == 100 * threshold[2] * Abs(DeviationTimesN(amount, amounts))
                 - threshold[1] * n
    IN  IF v > 0
        THEN IF threshold[1] < 0 THEN TRUE
             ELSE a > 0 /\ CompareSquares(a, 100 * threshold[1], v) = 1
        ELSE RatLT(threshold, Zero)

\* AnomalyDetector._group_by_category_with_metadata: category -> the dicts
\* of its transactions in list order.
GroupByCategoryWithMetadata(txs) ==
    [category \in {TxCategory(txs[i]) : i \in 1..Len(txs)} |->
        LET rows == SelectSeq(txs, LAMBDA tx : TxCategory(tx) = category)
        IN  [i \in 1..Len(rows) |->
                [amount |-> TxAmount(rows[i]),
                 date |-> IF "date" \in DOMAIN rows[i] THEN rows[i].date ELSE ""]]]

\* The categories in the order the dict got them: by first appearance.
RECURSIVE CategoryOrder(_)
CategoryOrder(txs) ==
    IF txs = <<>> THEN <<>>
    ELSE LET before == CategoryOrder(SubSeq(txs, 1, Len(txs) - 1))
             category == TxCategory(txs[Len(txs)])
         IN  IF \E i \in 1..Len(before) : before[i] = category
             THEN before
             ELSE Append(before, category)

\* data_list[-5:]
LastFive(data_list) ==
    SubSeq(data_list, IF Len(data_list) > 5 THEN Len(data_list) - 4 ELSE 1,
           Len(data_list))

\* The entry appended for a flagged item.  The reason is the text around
\* the z-score in tenths.
AnomalyEntry(category, item, amounts) ==
    LET sign == IF DeviationTimesN(item.amount, amounts) < 0 THEN -1 ELSE 1
    IN  [category |-> category,
         amount |-> item.amount,
         date |-> item.date,
         z_score |-> Rat(sign * AbsZScoreRounded(item.amount, amounts, 100), 100),
         average |-> RoundCents(Mean(amounts)),
         reason |-> <<"Spending", AbsZScoreRounded(item.amount, amounts, 10),
                      "σ away from normal pattern">>]

\* A slip that examines the whole history of a category.
CategoryAnomaliesWholeHistory(category, data_list, z_threshold) ==
    IF Len(data_list) < 3 THEN <<>>
    ELSE LET amounts == Amounts(data_list)
             flagged == SelectSeq(data_list,
                            LAMBDA item : AbsZExceeds(item.amount, amounts, z_threshold))
         IN  [i \in 1..Len(flagged) |-> AnomalyEntry(category, flagged[i], amounts)]

\* One turn of the loop over the categories: the entries it appends.
CategoryAnomalies(category, data_list, z_threshold) ==
    IF Len(data_list) < 3 THEN <<>>
    ELSE LET amounts == Amounts(data_list)
             flagged == SelectSeq(LastFive(data_list),
                            LAMBDA item : AbsZExceeds(item.amount, amounts, z_threshold))
         IN  [i \in 1..Len(flagged) |-> AnomalyEntry(category, flagged[i], amounts)]

\* A slip that still refuses a list of exactly 10 transactions.
InsufficientDataAtTen(txs) == Len(txs) <= 10

\* not transactions or len(transactions) < 10
InsufficientData(txs) == txs = <<>> \/ Len(txs) < 10

\* AnomalyDetector.detect_anomalies
AnomalyDetectorDetectAnomalies(txs, z_threshold) ==
    IF InsufficientData(txs)
    THEN [anomalies |-> <<>>, reason |-> "Insufficient data"]
    ELSE LET category_data == GroupByCategoryWithMetadata(txs)
             order == CategoryOrder(txs)
             upto[k \in 0..Len(order)] ==
                 IF k = 0 THEN <<>>
                 ELSE upto[k - 1]
                          \o CategoryAnomalies(order[k], category_data[order[k]],
                                               z_threshold)
             anomalies == upto[Len(order)]
         IN  [anomalies |-> anomalies,
              count |-> Len(anomalies),
              model_version |-> "1.0"]

\* The caller appends a transaction to the list it will hand over.
AddAnomalyTransaction ==
    \E kind \in AnomalyKinds :
        /\ Len(transactions) < MaxAnomalyTx
        /\ \/ kind = RoutineKind
           \/ Cardinality({i \in 1..Len(transactions) :
                              \/ transactions[i].category # RoutineKind.category
                              \/ transactions[i].amount # RoutineKind.amount})
                  < MaxUnusual
        /\ transactions' =
               Append(transactions,
                      [category |-> kind.category, amount |-> kind.amount,
                       date |-> Len(transactions) + 1])
        /\ anomalyOut' = {}
        /\ UNCHANGED <<serviceVars, now, anomaly_threshold, healthOut, ratingOut, budgetOut,
                       patternsOut, earlier, seriesOut, predictOut, savingsOut>>

\* AnomalyDetector(z_threshold).detect_anomalies(transactions)
CallAnomalyDetector ==
    \E z_threshold \in ZThresholds :
        /\ anomalyOut' = {[transactions |-> transactions,
                           z_threshold |-> z_threshold,
                           result |-> AnomalyDetectorDetectAnomalies(transactions,
                                                                     z_threshold)]}
        /\ UNCHANGED <<serviceVars, now, anomaly_threshold, transactions, healthOut, ratingOut,
                       budgetOut, patternsOut, earlier, seriesOut, predictOut,
                       savingsOut>>

NextAnomaly == AddAnomalyTransaction \/ CallAnomalyDetector

SpecAnomaly == Init /\ [][NextAnomaly]_vars

\* C17: detect_anomalies returns the insufficient-data result (an empty
\* anomaly list with the reason "Insufficient data") exactly when fewer than
\* 10 transactions are supplied, however they spread over the categories.
InsufficientIffFewerThanTen ==
    \A a \in anomalyOut :
        /\ ("reason" \in DOMAIN a.result) <=> (Len(a.transactions) < 10)
        /\ "reason" \in DOMAIN a.result
               => a.result = [anomalies |-> <<>>, reason |-> "Insufficient data"]
        /\ "reason" \notin DOMAIN a.result
               => DOMAIN a.result = {"anomalies", "count", "model_version"}

\* A list of exactly 10 transactions spread over two categories was
\* examined and one anomaly reported.
ExactlyTenWitness ==
    \E a \in anomalyOut :
        /\ Len(a.transactions) = 10
        /\ "reason" \notin DOMAIN a.result
        /\ \E i \in 1..10 : a.transactions[i].category = "food"
        /\ a.result.count = 1

\* The places of a list that hold the transactions of a category, and the
\* amounts at them in list order.
PlacesOf(txs, category) == {i \in 1..Len(txs) : txs[i].category = category}

AmountsOf(txs, category) ==
    Amounts(SelectSeq(txs, LAMBDA tx : tx.category = category))

\* |z| > p / q for z = (amount - mean) / (std + 0.01) over the amounts:
\* 100 q |n amount - sum| - p n > 100 p sqrt(n sumsq - sum^2).
ZBeyond(amount, amounts, threshold) ==
    LET a == 100 * threshold[2] * Abs(Len(amounts) * amount - SumSeq(amounts))
                 - threshold[1] * Len(amounts)
    IN  /\ a > 0
        /\ CompareSquares(a, 100 * threshold[1],
                          Len(amounts) * SumOfSquares(amounts)
                              - SumSeq(amounts) * SumSeq(amounts)) = 1

\* The places whose transaction is one of the last 5 of its category, in a
\* category of 3 or more, with |z| beyond the threshold.
ReportablePlaces(txs, threshold) ==
    {i \in 1..Len(txs) :
        LET category == txs[i].category
        IN  /\ Cardinality({j \in PlacesOf(txs, category) : j > i}) < 5
            /\ Cardinality(PlacesOf(txs, category)) >= 3
            /\ ZBeyond(txs[i].amount, AmountsOf(txs, category), threshold)}

\* The calls that returned a report.
Reports == {a \in anomalyOut : "count" \in DOMAIN a.result}

\* C18: every entry of the report is one of the last 5 transactions of its
\* category, in a category of at least 3, with |z| > threshold for
\* z = (amount - mean) / (std + 0.01) over the whole category; every such
\* transaction has an entry; count is the number of entries.  (The date of
\* a transaction is its place in the list, so an entry names its
\* transaction.)
ReportIsLastFiveBeyondThreshold ==
    \A a \in Reports :
        LET entries == a.result.anomalies
            places == ReportablePlaces(a.transactions, a.z_threshold)
        IN  /\ \A k \in 1..Len(entries) :
                   /\ entries[k].date \in places
                   /\ entries[k].category = a.transactions[entries[k].date].category
                   /\ entries[k].amount = a.transactions[entries[k].date].amount
            /\ \A i \in places : \E k \in 1..Len(entries) : entries[k].date = i
            /\ \A k, l \in 1..Len(entries) : entries[k].date = entries[l].date => k = l
            /\ a.result.count = Len(entries)

\* A report with an entry, made from a list in which a transaction beyond
\* the threshold is older than the last 5 of its category and another
\* category has fewer than 3 transactions.
ReportWitness ==
    \E a \in Reports :
        /\ a.result.count >= 1
        /\ \E i \in 1..Len(a.transactions) :
               LET category == a.transactions[i].category
               IN  /\ Cardinality({j \in PlacesOf(a.transactions, category) : j > i}) >= 5
                   /\ ZBeyond(a.transactions[i].amount,
                              AmountsOf(a.transactions, category), a.z_threshold)
        /\ Cardinality(PlacesOf(a.transactions, "food")) \in {1, 2}

---------------------------------------------------------------------------
(* SavingsOptimizer (src/ml_models/predictor.py).                          *)

\* How many transactions the caller of the optimizer assembles.
MaxSavingsTx == 4

\* Its transactions, the amounts as exact decimals.  The kind of a
\* transaction is not read by the optimizer.
SavingsPool ==
    { [category |-> "entertainment", amount |-> RatInt(1400), type |-> "EXPENSE"],
      [category |-> "entertainment", amount |-> Rat(33, 100), type |-> "EXPENSE"],
      [category |-> "groceries", amount |-> RatInt(185), type |-> "EXPENSE"],
      [category |-> "groceries", amount |-> RatInt(1065), type |-> "INCOME"],
      [category |-> "rent", amount |-> RatInt(1400), type |-> "EXPENSE"] }

\* The budget_limit argument.  A quarter of 5600 is 1400 and a quarter of
\* 5000 is 1250 = 185 + 1065.
BudgetLimits == {RatInt(5600), RatInt(5000), RatInt(400)}

\* category_totals: the sum of the amounts of a category, of any kind.
CategoryTotals(txs) ==
    [category \in {TxCategory(txs[i]) : i \in 1..Len(txs)} |->
        LET rows == SelectSeq(txs, LAMBDA tx : TxCategory(tx) = category)
        IN  RatSum([i \in 1..Len(rows) |->
                       IF "amount" \in DOMAIN rows[i] THEN rows[i].amount ELSE Zero])]

\* A slip that also flags a total equal to the quarter of the budget.
OverBudgetCategoriesInclusive(txs, budget_limit) ==
    SelectSeq(CategoryOrder(txs),
              LAMBDA category : RatGE(CategoryTotals(txs)[category],
                                      RatMul(budget_limit, Rat(1, 4))))

\* over_budget_categories, in the order of category_totals.
OverBudgetCategories(txs, budget_limit) ==
    SelectSeq(CategoryOrder(txs),
              LAMBDA category : RatGT(CategoryTotals(txs)[category],
                                      RatMul(budget_limit, Rat(1, 4))))

\* A slip that keeps the categories in the order of the dict.
InDictOrder(categories, totals) == categories

\* sorted(..., key=lambda x: x[1], reverse=True): by total, the largest
\* first, equal totals in the order they had.
RECURSIVE SortedByTotal(_, _)
SortedByTotal(categories, totals) ==
    IF categories = <<>> THEN <<>>
    ELSE LET first == CHOOSE i \in 1..Len(categories) :
                          /\ \A j \in 1..Len(categories) :
                                 RatGE(totals[categories[i]], totals[categories[j]])
                          /\ \A j \in 1..(i - 1) :
                                 RatGT(totals[categories[j]], totals[categories[i]])
                                 \/ RatLT(totals[categories[j]], totals[categories[i]])
             rest == [k \in 1..(Len(categories) - 1) |->
                         IF k < first THEN categories[k] ELSE categories[k + 1]]
         IN  <<categories[first]>> \o SortedByTotal(rest, totals)

\* A slip that derives the figures of an entry from the rounded ones.
SavingsEntryFromRounded(category, amount) ==
    LET current_spend == RoundCents(amount)
        suggested_reduction == RoundCents(RatMul(current_spend, Rat(15, 100)))
    IN  [category |-> category,
         current_spend |-> current_spend,
         suggested_reduction |-> suggested_reduction,
         target_spend |-> RatSub(current_spend, suggested_reduction),
         potential_savings |-> RatMul(suggested_reduction, RatInt(12))]

\* The dict appended for a flagged category.
SavingsEntry(category, amount) ==
    LET reduction_target == RatMul(amount, Rat(15, 100))
    IN  [category |-> category,
         current_spend |-> RoundCents(amount),
         suggested_reduction |-> RoundCents(reduction_target),
         target_spend |-> RoundCents(RatSub(amount, reduction_target)),
         potential_savings |-> RoundCents(RatMul(reduction_target, RatInt(12)))]

\* SavingsOptimizer.optimize_savings
OptimizeSavings(txs, budget_limit) ==
    IF txs = <<>> THEN [optimizations |-> <<>>]
    ELSE LET category_totals == CategoryTotals(txs)
             ranked == SortedByTotal(OverBudgetCategories(txs, budget_limit),
                                     category_totals)
             optimizations ==
                 [k \in 1..Len(ranked) |->
                     SavingsEntry(ranked[k], category_totals[ranked[k]])]
         IN  [optimizations |-> optimizations,
              total_potential_annual_savings |->
                  RoundCents(RatSum([k \in 1..Len(optimizations) |->
                                        optimizations[k].potential_savings])),
              model_version |-> "1.0"]

\* The caller appends a transaction to the list it will hand over.
AddSavingsTransaction ==
    \E tx \in SavingsPool :
        /\ Len(transactions) < MaxSavingsTx
        /\ transactions' = Append(transactions, tx)
        /\ savingsOut' = {}
        /\ UNCHANGED <<serviceVars, now, anomaly_threshold, healthOut, ratingOut, budgetOut,
                       patternsOut, earlier, seriesOut, predictOut, anomalyOut>>

\* optimizer.optimize_savings(transactions, budget_limit)
CallOptimizeSavings ==
    \E budget_limit \in BudgetLimits :
        /\ savingsOut' = {[transactions |-> transactions,
                           budget_limit |-> budget_limit,
                           result |-> OptimizeSavings(transactions, budget_limit)]}
        /\ UNCHANGED <<serviceVars, now, anomaly_threshold, transactions, healthOut, ratingOut,
                       budgetOut, patternsOut, earlier, seriesOut, predictOut,
                       anomalyOut>>

NextSavings == AddSavingsTransaction \/ CallOptimizeSavings

SpecSavings == Init /\ [][NextSavings]_vars

\* C19: the optimizations list is sorted by current_spend, the largest
\* first (non-increasing).
OptimizationsSortedDescending ==
    \A s \in savingsOut :
        LET optimizations == s.result.optimizations
        IN  \A i, j \in 1..Len(optimizations) :
                i < j => RatGE(optimizations[i].current_spend,
                               optimizations[j].current_spend)

\* Three categories were flagged, the one seen first is not the largest,
\* and the list falls strictly somewhere.
SortedThreeWitness ==
    \E s \in savingsOut :
        LET optimizations == s.result.optimizations
        IN  /\ Len(optimizations) = 3
            /\ s.transactions[1].category # optimizations[1].category
            /\ RatGT(optimizations[1].current_spend, optimizations[3].current_spend)

\* The sum of the amounts of the transactions of a category, taken from
\* the list place by place.
RECURSIVE TotalUpTo(_, _, _)
TotalUpTo(txs, category, i) ==
    IF i = 0 THEN Zero
    ELSE IF txs[i].category = category
         THEN RatAdd(TotalUpTo(txs, category, i - 1), txs[i].amount)
         ELSE TotalUpTo(txs, category, i - 1)

\* The sum of the potential_savings of the entries up to the k-th.
RECURSIVE PotentialUpTo(_, _)
PotentialUpTo(optimizations, k) ==
    IF k = 0 THEN Zero
    ELSE RatAdd(PotentialUpTo(optimizations, k - 1),
                optimizations[k].potential_savings)

\* C20: for every transaction list and budget limit,
\* total_potential_annual_savings is the sum of the potential_savings of
\* the entries, and in each entry suggested_reduction is 15% of
\* current_spend, target_spend is current_spend - suggested_reduction and
\* potential_savings is suggested_reduction * 12.
SavingsFiguresExact ==
    \A s \in savingsOut :
        /\ "total_potential_annual_savings" \in DOMAIN s.result
        /\ s.result.total_potential_annual_savings
               = PotentialUpTo(s.result.optimizations, Len(s.result.optimizations))
        /\ \A k \in 1..Len(s.result.optimizations) :
               LET entry == s.result.optimizations[k]
               IN  /\ entry.suggested_reduction
                          = RatMul(entry.current_spend, Rat(15, 100))
                   /\ entry.target_spend
                          = RatSub(entry.current_spend, entry.suggested_reduction)
                   /\ entry.potential_savings
                          = RatMul(entry.suggested_reduction, RatInt(12))

\* C20 as amended: for every non-empty transaction list and budget limit,
\* total_potential_annual_savings is the sum of the potential_savings of
\* the entries, and the figures of an entry are roundings to 2 decimals of
\* quantities taken from the unrounded total T of its category:
\* current_spend of T, suggested_reduction of 15% of T, target_spend of T
\* less 15% of T, and potential_savings of 12 times 15% of T.  For the empty
\* list the result is an empty optimizations list and nothing else.
SavingsFiguresRounded ==
    \A s \in savingsOut :
        IF s.transactions = <<>>
        THEN s.result = [optimizations |-> <<>>]
        ELSE /\ "total_potential_annual_savings" \in DOMAIN s.result
             /\ s.result.total_potential_annual_savings
                    = PotentialUpTo(s.result.optimizations,
                                    Len(s.result.optimizations))
             /\ \A k \in 1..Len(s.result.optimizations) :
                    LET entry == s.result.optimizations[k]
                        T == TotalUpTo(s.transactions, entry.category,
                                       Len(s.transactions))
                        cut == RatMul(T, Rat(15, 100))
                    IN  /\ entry.current_spend = RoundCents(T)
                        /\ entry.suggested_reduction = RoundCents(cut)
                        /\ entry.target_spend = RoundCents(RatSub(T, cut))
                        /\ entry.potential_savings
                               = RoundCents(RatMul(cut, RatInt(12)))

\* An entry for a total of 1400.33: the cut is 210.0495, reported as
\* 210.05, and the annual figure 2520.59 is not 12 times 210.05; a second
\* entry adds to the total.
RoundedFiguresWitness ==
    \E s \in savingsOut :
        /\ Len(s.result.optimizations) = 2
        /\ s.result.optimizations[1].current_spend = Rat(140033, 100)
        /\ s.result.optimizations[1].suggested_reduction = Rat(21005, 100)
        /\ s.result.optimizations[1].target_spend = Rat(119028, 100)
        /\ s.result.optimizations[1].potential_savings = Rat(252059, 100)
        /\ s.result.total_potential_annual_savings
               = RatAdd(Rat(252059, 100), s.result.optimizations[2].potential_savings)

\* The categories of the entries of a result.
FlaggedCategories(result) ==
    {result.optimizations[k].category : k \in 1..Len(result.optimizations)}

\* C21: optimize_savings flags a category exactly when the sum of the
\* amounts of all its transactions, income and expense alike, is strictly
\* greater than 25% of budget_limit.  With the totals entertainment 1400
\* and groceries 185 and the budget limit 5000 only entertainment is
\* flagged, with suggested_reduction 210, target_spend 1190 and
\* potential_savings 2520.
FlaggedIffAboveQuarter ==
    \A s \in savingsOut :
        /\ FlaggedCategories(s.result)
               = {c \in {s.transactions[i].category : i \in 1..Len(s.transactions)} :
                      RatGT(RatMul(TotalUpTo(s.transactions, c, Len(s.transactions)),
                                   RatInt(4)),
                            s.budget_limit)}
        /\ \A k, l \in 1..Len(s.result.optimizations) :
               s.result.optimizations[k].category = s.result.optimizations[l].category
               => k = l
        /\ (/\ Len(s.transactions) = 2
            /\ s.budget_limit = RatInt(5000)
            /\ TotalUpTo(s.transactions, "entertainment", 2) = RatInt(1400)
            /\ TotalUpTo(s.transactions, "groceries", 2) = RatInt(185))
           => s.result.optimizations
                  = <<[category |-> "entertainment",
                       current_spend |-> RatInt(1400),
                       suggested_reduction |-> RatInt(210),
                       target_spend |-> RatInt(1190),
                       potential_savings |-> RatInt(2520)]>>

\* With the budget limit 5000, entertainment at 1400 was flagged and
\* groceries at 185 + 1065 (an income) = 1250, the quarter itself, was not.
ExactQuarterWitness ==
    \E s \in savingsOut :
        /\ s.budget_limit = RatInt(5000)
        /\ TotalUpTo(s.transactions, "groceries", Len(s.transactions)) = RatInt(1250)
        /\ \E i \in 1..Len(s.transactions) : s.transactions[i].type = "INCOME"
        /\ FlaggedCategories(s.result) = {"entertainment"}
        /\ s.result.optimizations[1].suggested_reduction = RatInt(210)

\* C22: in every SpendingPattern that analyze_spending_patterns returns,
\* anomaly_reason is present (not None) exactly when anomaly_detected is
\* true.
ReasonIffAnomalyDetected ==
    \A p \in patternsOut :
        \A c \in DOMAIN p.result :
            (p.result[c].anomaly_reason # <<>>) <=> p.result[c].anomaly_detected

\* A pattern with a flagged category and its reason, the z-score 1.4 of
\* 300 after 120 and 120.
ReasonWitness ==
    \E p \in patternsOut :
        \E c \in DOMAIN p.result :
            /\ p.result[c].anomaly_detected
            /\ p.result[c].anomaly_reason
                   = <<"Spending", 14, "std deviations above average">>

---------------------------------------------------------------------------
(* More on the health scorer.                                              *)

\* The fixed message of a sub-score, and the order of the messages.
RecommendationFor ==
    [savings_rate |-> "Increase saving rate by reducing expenses",
     debt_ratio |-> "Focus on paying down debt",
     emergency_fund |-> "Build emergency fund with 3-6 months of expenses"]

RecommendationOrder == <<"savings_rate", "debt_ratio", "emergency_fund">>

\* C23: the recommendations hold exactly one fixed message for each of the
\* savings_rate, debt_ratio and emergency_fund sub-scores strictly below 10,
\* none for a sub-score of 10 or more, never one for income_stability, in
\* the order savings, debt, emergency.
RecommendationsForLowSubScores ==
    \A h \in healthOut :
        LET recommendations == h.result.recommendations
            low == {k \in 1..3 :
                       RatLT(h.result.breakdown[RecommendationOrder[k]], RatInt(10))}
        IN  /\ Len(recommendations) = Cardinality(low)
            /\ \A k \in low :
                   \E i \in 1..Len(recommendations) :
                       recommendations[i] = RecommendationFor[RecommendationOrder[k]]
            /\ \A i, j \in 1..Len(recommendations) :
                   i < j =>
                       \E k, l \in low :
                           /\ k < l
                           /\ recommendations[i] = RecommendationFor[RecommendationOrder[k]]
                           /\ recommendations[j] = RecommendationFor[RecommendationOrder[l]]

\* A debt sub-score of exactly 10 went without its message while the two
\* sub-scores below 10 got theirs, savings first.
RecommendationsWitness ==
    \E h \in healthOut :
        /\ h.result.breakdown.debt_ratio = RatInt(10)
        /\ h.result.recommendations
               = <<"Increase saving rate by reducing expenses",
                   "Build emergency fund with 3-6 months of expenses">>

---------------------------------------------------------------------------
(* More on the helpers on a series of their own.                           *)

\* The sum of the amounts at the places from to to.
RECURSIVE SumBetween(_, _, _)
SumBetween(amounts, from, to) ==
    IF from > to THEN 0 ELSE amounts[from] + SumBetween(amounts, from + 1, to)

\* The trend of the claim for n >= 2 amounts: the first half is the first
\* n div 2 amounts, with sum a over h places, the second the rest, with sum
\* b over m places.  firstHalfMean > 0 is a > 0, and
\* (secondHalfMean - firstHalfMean) / firstHalfMean > 0.10 is then
\* 10 (b h - a m) > a m; < -0.10 is 10 (b h - a m) < -(a m).
TrendOfHalves(amounts) ==
    LET h == Len(amounts) \div 2
        m == Len(amounts) - h
        a == SumBetween(amounts, 1, h)
        b == SumBetween(amounts, h + 1, Len(amounts))
    IN  IF a > 0 /\ 10 * (b * h - a * m) > a * m THEN "UP"
        ELSE IF a > 0 /\ 10 * (b * h - a * m) < -(a * m) THEN "DOWN"
        ELSE "STABLE"

\* C24: for n >= 2 amounts the classifier splits at n div 2 and returns UP
\* iff firstHalfMean > 0 and the relative change of the second half's mean
\* is above 0.10, DOWN iff firstHalfMean > 0 and it is below -0.10, STABLE
\* otherwise; a first-half mean of 0 yields STABLE.
TrendBySplitHalves ==
    \A s \in seriesOut :
        (s.fn = "_calculate_trend" /\ Len(s.amounts) >= 2)
        => /\ s.trend = TrendOfHalves(s.amounts)
           /\ SumBetween(s.amounts, 1, Len(s.amounts) \div 2) = 0
                  => s.trend = "STABLE"

\* Nothing, then 300 twice: the first half is the first amount alone, its
\* mean is 0 and the trend STABLE.
ZeroFirstHalfWitness ==
    \E s \in seriesOut :
        /\ s.fn = "_calculate_trend"
        /\ s.amounts = <<0, 300, 300>>
        /\ s.trend = "STABLE"

\* The claim's test on the expenses x of a category and a threshold p / q:
\* at least 3 points, std > 0 and |last - mean| / std > p / q.  With n
\* points of sum s and sum of squares w, d = n last - s and
\* v = n w - s^2, this is n >= 3, v > 0 and, for p / q >= 0,
\* q^2 d^2 > p^2 v.
LastValueBeyond(expenses, threshold) ==
    LET n == Len(expenses)
        d == n * expenses[n] - SumBetween(expenses, 1, n)
        v == n * SumBetween([i \in 1..n |-> expenses[i] * expenses[i]], 1, n)
                 - SumBetween(expenses, 1, n) * SumBetween(expenses, 1, n)
    IN  /\ n >= 3
        /\ v > 0
        /\ \/ threshold[1] < 0
           \/ threshold[2] * threshold[2] * d * d > threshold[1] * threshold[1] * v

TrailingForecast(category_data, today) ==
    LET expenses == Amounts(ExpenseRows(category_data))
        trailing ==
            Amounts(SelectSeq(ExpenseRows(category_data),
                              LAMBDA t : t.date >= today - 30 /\ t.date <= today))
    IN  IF Len(expenses) = 0 THEN Zero
        ELSE IF Len(trailing) = 0
             THEN Rat(SumBetween(expenses, 1, Len(expenses)), Len(expenses))
             ELSE Rat(SumBetween(trailing, 1, Len(trailing)) * 30, Len(trailing))

\* C26: for a category with non-negative expense amounts the forecast is
\* non-negative and equals 0 without expenses, the all-time mean of the
\* expenses when none falls in the trailing 30 days, and otherwise the sum
\* of the expenses of the trailing 30 days times 30 over their number.
ForecastFromTrailingThirtyDays ==
    \A s \in seriesOut :
        s.fn = "_forecast_next_month"
        => /\ RatGE(s.forecast, Zero)
           /\ s.forecast = TrailingForecast(s.category_data, s.today)

\* The same with the trailing 30 days read as every date from today - 30
\* on, later dates included: what line 146 selects.
ForecastFromCutoffOnwards ==
    \A s \in seriesOut :
        s.fn = "_forecast_next_month"
        => LET expenses == Amounts(ExpenseRows(s.category_data))
               later == Amounts(SelectSeq(ExpenseRows(s.category_data),
                                          LAMBDA t : t.date >= s.today - 30))
           IN  /\ RatGE(s.forecast, Zero)
               /\ s.forecast
                      = IF Len(expenses) = 0 THEN Zero
                        ELSE IF Len(later) = 0
                             THEN Rat(SumBetween(expenses, 1, Len(expenses)),
                                      Len(expenses))
                             ELSE Rat(SumBetween(later, 1, Len(later)) * 30, Len(later))


---------------------------------------------------------------------------
(* The ceiling of the health score.                                        *)

\* The calls C28 is about: an income, no negative expenses, no negative
\* debt ratio.
OrdinaryHealthCalls ==
    {h \in healthOut : /\ h.monthly_income > 0
                       /\ h.monthly_expenses >= 0
                       /\ RatGE(h.debt_ratio, Zero)}

HasRecommendation(h, message) ==
    \E i \in 1..Len(h.result.recommendations) :
        h.result.recommendations[i] = message

---------------------------------------------------------------------------
(* The two detectors on short histories.                                   *)

\* The longest history of one category handed to _detect_anomalies.
MaxHistoryLen == 6

\* The expense rows of a history: a usual amount, a lower one and nothing.
HistoryRows ==
    { [date |-> 480, amount |-> a, category |-> "groceries", type |-> "EXPENSE"]
          : a \in {0, 87, 120} }

Histories == UNION {[1..n -> HistoryRows] : n \in 0..MaxHistoryLen}

\* self._detect_anomalies(category_data, self.anomaly_threshold), as
\* analyze_spending_patterns calls it for each category.
CallDetectAnomaliesOnHistory ==
    \E category_data \in Histories :
        /\ seriesOut = {}
        /\ seriesOut' = {[fn |-> "_detect_anomalies",
                          category_data |-> category_data,
                          threshold |-> anomaly_threshold,
                          anomaly |-> DetectAnomalies(category_data,
                                                      anomaly_threshold)]}
        /\ UNCHANGED <<serviceVars, now, anomaly_threshold, transactions, healthOut,
                       ratingOut, budgetOut, patternsOut, earlier, predictOut,
                       anomalyOut, savingsOut>>

\* A behaviour exercises one of the two detectors.
NextDetectors ==
    \/ (transactions = <<>> /\ anomalyOut = {} /\ CallDetectAnomaliesOnHistory)
    \/ (seriesOut = {} /\ AddAnomalyTransaction)
    \/ (seriesOut = {} /\ CallAnomalyDetector)

SpecDetectors == Init /\ [][NextDetectors]_vars

\* The calls of _detect_anomalies with the default threshold 2.0.
DefaultThresholdCalls ==
    {s \in seriesOut : s.fn = "_detect_anomalies" /\ s.threshold = RatInt(2)}

\* Every entry of a report made with the default threshold 2.5 is of a
\* category with at least 8 transactions.
WindowedEntriesFromEightUp ==
    \A a \in Reports :
        a.z_threshold = Rat(5, 2)
        => \A k \in 1..Len(a.result.anomalies) :
               Cardinality(PlacesOf(a.transactions,
                                    a.result.anomalies[k].category)) >= 8

---------------------------------------------------------------------------
(* The portfolio rebalancing endpoint (src/ai-agent/main.py:234-272).      *)
(*                                                                         *)
(* A dict is a record; the empty dict {} is the function with the empty    *)
(* domain, and `not d` is DOMAIN d = {}.  A text built from pieces         *)
(* (str(e), an f-string) is the sequence of its pieces; the empty text is  *)
(* the empty sequence.                                                     *)

EmptyDict == <<>>

UserIds == {"u1", "u2"}

\* What db.fetch_user_profile answers: the profile of database.py:45-49,
\* one with another risk_profile, or {} (database.py:52).
UserProfiles(user_id) ==
    { EmptyDict,
      [user_id |-> user_id, risk_profile |-> "moderate", constraints |-> EmptyDict],
      [user_id |-> user_id, risk_profile |-> "aggressive", constraints |-> EmptyDict] }

\* What db.fetch_user_portfolio answers: {} (no portfolio, database.py:63),
\* the portfolio of database.py:57-60, or one with holdings.
UserPortfolios(user_id) ==
    { EmptyDict,
      [user_id |-> user_id, allocation |-> EmptyDict],
      [user_id |-> user_id, allocation |-> [stocks |-> 60, bonds |-> 40]] }

\* What db.fetch_user_goals answers.
UserGoals == { EmptyDict, [retirement |-> 2050] }

\* dict.get(key, default).
DictGet(d, key, default) == IF key \in DOMAIN d THEN d[key] ELSE default

\* What agent.make_portfolio_recommendation does: it returns the parsed
\* answer (autonomous_agent.py:164-165), the default recommendation
\* (lines 296-303, confidence_score 0), or the API client raises.
AgentOutcomes ==
    { [raised |-> FALSE, recommendation |-> [risk_level |-> "moderate", confidence_score |-> 0]],
      [raised |-> FALSE, recommendation |-> [risk_level |-> "moderate", confidence_score |-> 79]],
      [raised |-> FALSE, recommendation |-> [risk_level |-> "moderate", confidence_score |-> 80]],
      [raised |-> FALSE, recommendation |-> [risk_level |-> "high", confidence_score |-> 95]],
      [raised |-> FALSE, recommendation |-> [risk_level |-> "moderate"]],
      [raised |-> TRUE, message |-> <<"Connection error.">>] }

\* str(e) of HTTPException(status_code, detail): the installed Starlette
\* decides.  Its HTTPException either defines __str__ as
\* f"{status_code}: {detail}" or defines none and passes no argument to
\* Exception, and then str(e) is the empty text.
HTTPExceptionStr(status_code, detail) ==
    { <<>>, <<status_code, ": ">> \o detail }

HTTPException(status_code, detail) ==
    [status_code |-> status_code, detail |-> detail]

\* get_portfolio_rebalancing (main.py:249-272).  The HTTPException of line
\* 256 is raised inside the try block of line 249; it is an Exception, so
\* the handler of line 270 catches it and line 272 raises
\* HTTPException(500, str(e)) in its place.  `text` is what str(e) gives
\* for the exception of line 256.  An exception of the agent takes the same
\* way out.
GetPortfolioRebalancing(user_id, user_profile, portfolio, goals, outcome, text) ==
    IF DOMAIN portfolio = {}
    THEN [agent_calls |-> <<>>,
          response |-> HTTPException(500, text)]
    ELSE LET call == [current_portfolio |-> DictGet(portfolio, "allocation", EmptyDict),
                      risk_profile |-> DictGet(user_profile, "risk_profile", "moderate"),
                      goals |-> goals,
                      constraints |-> DictGet(user_profile, "constraints", EmptyDict)]
         IN  IF outcome.raised
             THEN [agent_calls |-> <<call>>,
                   response |-> HTTPException(500, outcome.message)]
             ELSE [agent_calls |-> <<call>>,
                   response |->
                       [status_code |-> 200,
                        user_id |-> user_id,
                        recommendation |-> outcome.recommendation,
                        requires_approval |->
                            DictGet(outcome.recommendation, "confidence_score", 0) < 80]]

\* One request: the persistence layer's three answers and what the agent
\* and str() do are drawn here.  The agent's outcome and the text are drawn
\* only where the handler reaches them.
CallGetPortfolioRebalancing ==
    \E user_id \in UserIds :
    \E user_profile \in UserProfiles(user_id), portfolio \in UserPortfolios(user_id),
       goals \in UserGoals, outcome \in AgentOutcomes,
       text \in HTTPExceptionStr("404", <<"No portfolio found">>) :
        /\ DOMAIN portfolio = {} => outcome = CHOOSE o \in AgentOutcomes : TRUE
        /\ DOMAIN portfolio # {} => text = <<>>
        /\ rebalanceOut' =
               { [user_id |-> user_id, user_profile |-> user_profile,
                  portfolio |-> portfolio, goals |-> goals]
                 @@ GetPortfolioRebalancing(user_id, user_profile, portfolio,
                                            goals, outcome, text) }
        /\ UNCHANGED <<now, anomaly_threshold, transactions, healthOut, ratingOut,
                       budgetOut, patternsOut, otherVars,
                       cache, cache_expiry, clock, marketOut>>

NextRebalance == CallGetPortfolioRebalancing

SpecRebalance == Init /\ [][NextRebalance]_vars

\* C27: when the persistence layer returns no portfolio, the endpoint
\* answers with status 404 and detail 'No portfolio found', not with
\* another status, and never calls the recommendation agent.
NoPortfolioAnswers404 ==
    \A r \in rebalanceOut :
        DOMAIN r.portfolio = {} =>
            /\ r.response.status_code = 404
            /\ r.response.detail = <<"No portfolio found">>
            /\ r.agent_calls = <<>>

\* The part of C27 the code keeps: without a portfolio the agent is never
\* called, and with one it is called exactly once.
AgentCalledIffPortfolio ==
    \A r \in rebalanceOut :
        Len(r.agent_calls) = (IF DOMAIN r.portfolio = {} THEN 0 ELSE 1)

\* ------------------------------------------------------------------
\* The market data cache (market_data.py)
\*
\* One MarketDataFetcher: cache and cache_expiry are its two dictionaries
\* and clock is what datetime.now() reads, in seconds.  The getters are
\* coroutines without an await in their bodies, so each call runs from
\* its cache lookup to its return as one step.  A call reads the clock
\* once: the lookup, last_updated and the expiry all see the same
\* instant.  A cache key f"stock_{symbol}_{period}" is the tuple of its
\* parts, and last_updated, an ISO text in the code, is the clock value
\* it was formatted from.
\* ------------------------------------------------------------------

CacheDuration == 300

MaxClock == 301

StockSymbols == {"AAPL"}
Periods == {"1mo", "1y"}
CryptoSymbols == {"BTC-USD"}
CurrencyPairs == {<<"USD", "EUR">>}
IndexSymbols == {"^GSPC"}

\* What the quote source gives back: a price history (its rows, none for
\* an empty DataFrame) and the info dictionary.
PriceRows ==
    <<[Close |-> 100, High |-> 110, Low |-> 90, Volume |-> 5],
      [Close |-> 104, High |-> 106, Low |-> 95, Volume |-> 7]>>

PriceHistories == {<<>>, PriceRows}

StockInfos ==
    { EmptyDict,
      [currentPrice |-> 190, regularMarketChangePercent |-> 1,
       fiftyTwoWeekHigh |-> 200, fiftyTwoWeekLow |-> 120,
       marketCap |-> 3000, trailingPE |-> 30, dividendYield |-> 0] }

\* The source raising (a network error, an unknown symbol) is one outcome.
SourceRaises == [raises |-> TRUE, hist |-> <<>>, info |-> EmptyDict]

TickerOutcomes(infos) ==
    {SourceRaises} \cup
    { [raises |-> FALSE, hist |-> hist, info |-> info] :
          hist \in PriceHistories, info \in infos }

DictPut(d, key, value) ==
    [k \in DOMAIN d \cup {key} |-> IF k = key THEN value ELSE d[k]]

DictDel(d, key) == [k \in DOMAIN d \ {key} |-> d[k]]

ColumnMax(hist, column) ==
    CHOOSE v \in { hist[i][column] : i \in DOMAIN hist } :
        \A i \in DOMAIN hist : hist[i][column] <= v

ColumnMin(hist, column) ==
    CHOOSE v \in { hist[i][column] : i \in DOMAIN hist } :
        \A i \in DOMAIN hist : hist[i][column] >= v

\* _is_cached: whether key is cached at time t, and the two dictionaries
\* after the lookup.  An entry without an expiry never expires.
IsCached(c, e, key, t) ==
    IF key \notin DOMAIN c
    THEN [cached |-> FALSE, cache |-> c, cache_expiry |-> e]
    ELSE IF key \in DOMAIN e /\ t > e[key]
    THEN [cached |-> FALSE, cache |-> DictDel(c, key),
          cache_expiry |-> DictDel(e, key)]
    ELSE [cached |-> TRUE, cache |-> c, cache_expiry |-> e]

\* The three ways a getter ends.
ReturnCached(looked, cache_key) ==
    [cache |-> looked.cache, cache_expiry |-> looked.cache_expiry,
     fetched |-> FALSE, result |-> looked.cache[cache_key]]

ReturnEmpty(looked) ==
    [cache |-> looked.cache, cache_expiry |-> looked.cache_expiry,
     fetched |-> TRUE, result |-> EmptyDict]

StoreAndReturn(looked, cache_key, data, t) ==
    [cache |-> DictPut(looked.cache, cache_key, data),
     cache_expiry |-> DictPut(looked.cache_expiry, cache_key, t + CacheDuration),
     fetched |-> TRUE, result |-> data]

\* `float(info.get(key, 0)) if info.get(key) else None`: no value for a
\* missing or zero entry.
OptionalFloat(info, key) ==
    IF DictGet(info, key, 0) # 0 THEN {info[key]} ELSE {}

StockCacheKey(symbol, period) == <<"stock", symbol, period>>

\* get_stock_data: the history is fetched and not looked at; every field
\* comes from info, with 0 for a missing one.
GetStockData(c, e, t, symbol, period, outcome) ==
    LET cache_key == StockCacheKey(symbol, period)
        looked == IsCached(c, e, cache_key, t)
        info == outcome.info
        data == [symbol |-> symbol,
                 price |-> DictGet(info, "currentPrice", 0),
                 change_percent |-> DictGet(info, "regularMarketChangePercent", 0),
                 market_cap |-> DictGet(info, "marketCap", 0),
                 pe_ratio |-> OptionalFloat(info, "trailingPE"),
                 dividend_yield |-> OptionalFloat(info, "dividendYield"),
                 last_updated |-> t]
                @@ ("52_week_high" :> DictGet(info, "fiftyTwoWeekHigh", 0))
                @@ ("52_week_low" :> DictGet(info, "fiftyTwoWeekLow", 0))
    IN  IF looked.cached THEN ReturnCached(looked, cache_key)
        ELSE IF outcome.raises THEN ReturnEmpty(looked)
        ELSE StoreAndReturn(looked, cache_key, data, t)

CryptoCacheKey(symbol) == <<"crypto", symbol>>

\* get_crypto_data
GetCryptoData(c, e, t, symbol, outcome) ==
    LET cache_key == CryptoCacheKey(symbol)
        looked == IsCached(c, e, cache_key, t)
        data_obj == outcome.hist
        data == [symbol |-> symbol,
                 price |-> data_obj[Len(data_obj)].Close,
                 high_24h |-> ColumnMax(data_obj, "High"),
                 low_24h |-> ColumnMin(data_obj, "Low"),
                 volume |-> data_obj[Len(data_obj)].Volume,
                 last_updated |-> t]
    IN  IF looked.cached THEN ReturnCached(looked, cache_key)
        ELSE IF outcome.raises THEN ReturnEmpty(looked)
        ELSE IF data_obj = <<>> THEN ReturnEmpty(looked)
        ELSE StoreAndReturn(looked, cache_key, data, t)

ForexCacheKey(from_currency, to_currency) == <<"forex", from_currency, to_currency>>

\* get_forex_rate
GetForexRate(c, e, t, from_currency, to_currency, outcome) ==
    LET cache_key == ForexCacheKey(from_currency, to_currency)
        looked == IsCached(c, e, cache_key, t)
        data_obj == outcome.hist
        data == [from |-> from_currency,
                 to |-> to_currency,
                 rate |-> data_obj[Len(data_obj)].Close,
                 last_updated |-> t]
    IN  IF looked.cached THEN ReturnCached(looked, cache_key)
        ELSE IF outcome.raises THEN ReturnEmpty(looked)
        ELSE IF data_obj = <<>> THEN ReturnEmpty(looked)
        ELSE StoreAndReturn(looked, cache_key, data, t)

IndexCacheKey(index_symbol) == <<"index", index_symbol>>

\* get_market_index: the change over the history, in percent, is a
\* binary64 quotient.
GetMarketIndex(c, e, t, index_symbol, outcome) ==
    LET cache_key == IndexCacheKey(index_symbol)
        looked == IsCached(c, e, cache_key, t)
        hist == outcome.hist
        current_price == hist[Len(hist)].Close
        prev_close == hist[1].Close
        change == IF prev_close > 0
                  THEN FloatMul(FloatDiv(FloatFromInt(current_price - prev_close),
                                         FloatFromInt(prev_close)),
                                FloatFromInt(100))
                  ELSE FloatZero
        data == [symbol |-> index_symbol,
                 current |-> current_price,
                 change_percent |-> change,
                 high_52w |-> ColumnMax(hist, "High"),
                 low_52w |-> ColumnMin(hist, "Low"),
                 volume |-> hist[Len(hist)].Volume,
                 last_updated |-> t]
    IN  IF looked.cached THEN ReturnCached(looked, cache_key)
        ELSE IF outcome.raises THEN ReturnEmpty(looked)
        ELSE IF hist = <<>> THEN ReturnEmpty(looked)
        ELSE StoreAndReturn(looked, cache_key, data, t)

\* One getter call on the fetcher: the dictionaries become what the call
\* leaves, and the call is recorded with the entry it found.  The source's
\* outcome is drawn only where the getter reaches the source.
MarketCall(fn, cache_key, outcome, call) ==
    /\ ~call.fetched => outcome = SourceRaises
    /\ cache' = call.cache
    /\ cache_expiry' = call.cache_expiry
    /\ marketOut' =
           { [fn |-> fn, cache_key |-> cache_key, at |-> clock,
              outcome |-> outcome,
              old_value |-> IF cache_key \in DOMAIN cache
                            THEN {cache[cache_key]} ELSE {},
              old_expiry |-> IF cache_key \in DOMAIN cache_expiry
                             THEN {cache_expiry[cache_key]} ELSE {},
              fetched |-> call.fetched,
              result |-> call.result] }
    /\ UNCHANGED <<now, anomaly_threshold, transactions, healthOut, ratingOut,
                   budgetOut, patternsOut, otherVars, rebalanceOut, clock>>

CallGetStockData ==
    \E symbol \in StockSymbols, period \in Periods,
       outcome \in TickerOutcomes(StockInfos) :
        MarketCall("get_stock_data", StockCacheKey(symbol, period), outcome,
                   GetStockData(cache, cache_expiry, clock, symbol, period, outcome))

CallGetCryptoData ==
    \E symbol \in CryptoSymbols, outcome \in TickerOutcomes({EmptyDict}) :
        MarketCall("get_crypto_data", CryptoCacheKey(symbol), outcome,
                   GetCryptoData(cache, cache_expiry, clock, symbol, outcome))

CallGetForexRate ==
    \E pair \in CurrencyPairs, outcome \in TickerOutcomes({EmptyDict}) :
        MarketCall("get_forex_rate", ForexCacheKey(pair[1], pair[2]), outcome,
                   GetForexRate(cache, cache_expiry, clock, pair[1], pair[2], outcome))

CallGetMarketIndex ==
    \E index_symbol \in IndexSymbols, outcome \in TickerOutcomes({EmptyDict}) :
        MarketCall("get_market_index", IndexCacheKey(index_symbol), outcome,
                   GetMarketIndex(cache, cache_expiry, clock, index_symbol, outcome))

\* clear_cache
ClearCache ==
    /\ cache' = EmptyDict
    /\ cache_expiry' = EmptyDict
    /\ marketOut' = {}
    /\ UNCHANGED <<now, anomaly_threshold, transactions, healthOut, ratingOut,
                   budgetOut, patternsOut, otherVars, rebalanceOut, clock>>

\* Time passes between two calls: to the last instant of an entry stored
\* now, or just past it.
AdvanceClock ==
    \E seconds \in {CacheDuration, CacheDuration + 1} :
        /\ clock + seconds <= MaxClock
        /\ clock' = clock + seconds
        /\ UNCHANGED <<now, anomaly_threshold, transactions, healthOut, ratingOut,
                       budgetOut, patternsOut, otherVars, rebalanceOut,
                       cache, cache_expiry, marketOut>>

NextMarket ==
    \/ CallGetStockData
    \/ CallGetCryptoData
    \/ CallGetForexRate
    \/ CallGetMarketIndex
    \/ ClearCache
    \/ AdvanceClock

SpecMarket == Init /\ [][NextMarket]_vars

\* The source came back with nothing: it raised, or, where the getter
\* reads the history, the history has no rows; for get_stock_data, which
\* reads only info, the history has no rows and info has no entries.
EmptyOrFailedFetch(c) ==
    \/ c.outcome.raises
    \/ /\ c.outcome.hist = <<>>
       /\ DOMAIN c.outcome.info = {}

SameKeySets == DOMAIN cache = DOMAIN cache_expiry

\* Every entry expires CacheDuration seconds after it was stored.
ExpiryIsStoreTimePlusDuration ==
    \A k \in DOMAIN cache :
        cache_expiry[k] = cache[k].last_updated + CacheDuration

\* A call answers from the cache only with the stored value and only up
\* to its expiry.
CachedOnlyUntilExpiry ==
    \A c \in marketOut :
        ~c.fetched =>
            /\ c.old_value = {c.result}
            /\ \A expiry \in c.old_expiry : c.at <= expiry
            /\ c.old_expiry # {}

\* A call that finds an expired entry goes to the source; afterwards the
\* key is in neither dictionary or holds what this call fetched.
ExpiredIsRemovedAndRefetched ==
    \A c \in marketOut :
        (\E expiry \in c.old_expiry : c.at > expiry) =>
            /\ c.fetched
            /\ \/ c.cache_key \notin DOMAIN cache \cup DOMAIN cache_expiry
               \/ /\ c.cache_key \in DOMAIN cache \cap DOMAIN cache_expiry
                  /\ cache[c.cache_key] = c.result
                  /\ cache[c.cache_key].last_updated = c.at

EmptyOrFailedNeverStored ==
    \A c \in marketOut :
        c.fetched /\ EmptyOrFailedFetch(c) =>
            c.cache_key \notin DOMAIN cache \cup DOMAIN cache_expiry

\* C30: after any sequence of getter calls, clear_cache calls and clock
\* advances the two dictionaries have the same keys, a call answers from
\* the cache only while the clock has not passed the entry's expiry (its
\* store time plus 300 seconds), an expired entry is removed from both
\* dictionaries by the next call for its key and fetched again, and
\* nothing is stored when the source raised or came back empty.
CacheHoldsOnlyFreshFetchedData ==
    /\ SameKeySets
    /\ ExpiryIsStoreTimePlusDuration
    /\ CachedOnlyUntilExpiry
    /\ ExpiredIsRemovedAndRefetched
    /\ EmptyOrFailedNeverStored

\* The part of C30 the code keeps: all of it but for get_stock_data, which
\* stores a record of zeros when the source comes back empty.
CacheHoldsFreshDataButEmptyStock ==
    /\ SameKeySets
    /\ ExpiryIsStoreTimePlusDuration
    /\ CachedOnlyUntilExpiry
    /\ ExpiredIsRemovedAndRefetched
    /\ \A c \in marketOut :
           c.fetched /\ EmptyOrFailedFetch(c) =>
               \/ c.cache_key \notin DOMAIN cache \cup DOMAIN cache_expiry
               \/ /\ c.fn = "get_stock_data"
                  /\ ~c.outcome.raises
                  /\ cache[c.cache_key].price = 0
                  /\ cache[c.cache_key] = c.result

====
